---- MODULE Spec2Model ----
(***************************************************************************)
(* GAIA MUD: the object world (WorldManager: cache, store, inheritance     *)
(* lookup), the G standard library functions that bridge to it, and the    *)
(* input pipeline (InputParser, InputBinder).                              *)
(***************************************************************************)
EXTENDS Integers, Sequences, FiniteSets, TLC

VARIABLES
    worldDb,      \* the CouchDB world database: id -> document or NoDoc
    objectCache,  \* WorldManager.objectCache: id -> cached GameObject or NoObj
    heap,         \* the attribute maps (JS objects shared by reference): address -> map
    task,         \* the asynchronous calls in flight: task -> its frame
    started,      \* how many top-level calls have been started
    socket,       \* the telnet connections: connection -> open or not
    engine        \* GameEngine's static fields and Node's active interval timers

vars == <<worldDb, objectCache, heap, task, started, socket, engine>>

----------------------------------------------------------------------------
(* Bounds of the model *)

\* longest parentIds list drawn for the object that starts the lookups
MaxParents == 2

\* top-level calls that write to the store, over one behaviour
MaxCalls == 2

\* the returns and throws of a running task that one step of the model follows
RunSteps == 40

\* the run of a script that nests without end is followed to this many
\* nested executions
MaxFrames == 130

----------------------------------------------------------------------------
(* Values (core/types.ts GValue), as the code distinguishes them *)

Strs == {"red", "blue", "va", "vb", "vc", "vd"}

GString(s) == [kind |-> "string", s |-> s]
GNull == [kind |-> "null"]
GBool(b) == [kind |-> "boolean", b |-> b]
\* undefined: what getAttributeValue returns when nothing defines the name
Undefined == [kind |-> "undefined"]
\* a JS object with a 'value' field holding v: {value: v}
GWrapped(v) == [kind |-> "object", value |-> v]
\* a JS object (GMap) without a 'value' field
GMapPlain == [kind |-> "object"]

\* attr.value of an object that has a 'value' field
ValueField(attr) == attr.value

\* (typeof attr === 'object' && attr !== null && 'value' in attr)
IsAttributeWrapper(attr) == attr.kind = "object" /\ "value" \in DOMAIN attr

----------------------------------------------------------------------------
(* Objects *)

BASE_OBJECT_ID == "#object"
IdSeq == <<"#a", "#b", "#c", "#d">>
Ids == {IdSeq[k] : k \in 1 .. Len(IdSeq)}
\* an id that names no object anywhere
MissingId == "#missing"
Names == {"color"}

NoDoc == [exists |-> FALSE]
NoObj == [cached |-> FALSE]

Tasks == {"t1", "t2"}

\* the telnet clients that may connect
Conns == {"c1", "c2"}

\* enough addresses for every cached object and every handle a task holds
Addrs == 1 .. (Cardinality(Ids) + 3 * Cardinality(Tasks))
EmptyMap == << >>

\* a GameObject in the hands of running code: its fields, and the address of
\* the attribute map it shares with every other reference to it
Handle(id, rev, parentIds, addr) ==
    [kind |-> "gameobject", id |-> id, rev |-> rev, parentIds |-> parentIds,
     attributes |-> addr]

IsHandle(v) == v.kind = "gameobject"

\* core/types.ts: locationId is an optional field of a GameObject; a record
\* built from src carries it exactly when src has it
WithLocation(rec, src) ==
    IF "locationId" \in DOMAIN src
    THEN rec @@ [locationId |-> src.locationId]
    ELSE rec

\* the cached object under an id, as the handle getObjectById returns
CachedHandle(cache, id) ==
    WithLocation(Handle(id, cache[id].rev, cache[id].parentIds, cache[id].attributes),
                 cache[id])

IsCached(cache, id) == id \in DOMAIN cache /\ cache[id].cached

----------------------------------------------------------------------------
(* The asynchronous machine: one frame per task, run from one store access   *)
(* to the next (Node's run-to-completion between awaits on I/O)             *)

\* a task's frame: where it is suspended, its stack of pending calls (the
\* innermost first), the store request or response in flight, and how its
\* top-level call ended
IdleFrame ==
    [pc |-> "idle", call |-> [op |-> "none"], stack |-> << >>, fetchId |-> "",
     dbResp |-> NoDoc, body |-> NoDoc, insResp |-> [ok |-> FALSE, rev |-> 0],
     outcome |-> "none", result |-> Undefined, obs |-> [op |-> "none"],
     pairs |-> {}, refused |-> {}, sent |-> << >>, logged |-> << >>,
     deepest |-> 0, ticked |-> << >>, errors |-> << >>, conflicts |-> 0,
     restart |-> [crashed |-> FALSE], processed |-> << >>, failed |-> {},
     ret |-> Undefined]

\* the attribute-map addresses a value refers to
RefsV(v) ==
    IF "attributes" \in DOMAIN v THEN {v.attributes}
    ELSE IF "items" \in DOMAIN v
    THEN {v.items[k].attributes :
             k \in {j \in 1 .. Len(v.items) : "attributes" \in DOMAIN v.items[j]}}
    ELSE {}

RefsCtx(ctx) == UNION {RefsV(ctx[k]) : k \in DOMAIN ctx \ {"callDepth"}}

RefsSeq(sq) == UNION {RefsV(sq[k]) : k \in 1 .. Len(sq)}

RefsItem(it) ==
    (IF "ctx" \in DOMAIN it THEN RefsCtx(it.ctx) ELSE {})
    \cup (IF "objData" \in DOMAIN it THEN RefsV(it.objData) ELSE {})
    \cup (IF "fullObject" \in DOMAIN it THEN RefsV(it.fullObject) ELSE {})
    \cup (IF "targetObj" \in DOMAIN it THEN RefsV(it.targetObj) ELSE {})
    \cup (IF "done" \in DOMAIN it THEN RefsSeq(it.done) ELSE {})
    \cup (IF "initialArgs" \in DOMAIN it THEN RefsSeq(it.initialArgs.args) ELSE {})
    \cup (IF "messageContentSource" \in DOMAIN it
          THEN RefsV(it.messageContentSource) ELSE {})
    \cup (IF "valueToSet" \in DOMAIN it THEN RefsV(it.valueToSet) ELSE {})
    \cup (IF "evaluatedArgs" \in DOMAIN it THEN RefsSeq(it.evaluatedArgs) ELSE {})
    \cup (IF "allObjects" \in DOMAIN it THEN RefsSeq(it.allObjects) ELSE {})
    \cup (IF "lastResult" \in DOMAIN it THEN RefsV(it.lastResult) ELSE {})
    \cup (IF "actor" \in DOMAIN it THEN RefsV(it.actor) ELSE {})
    \cup (IF "location" \in DOMAIN it THEN RefsV(it.location) ELSE {})

RefsFrame(f) == RefsV(f.result) \cup UNION {RefsItem(f.stack[k]) : k \in 1 .. Len(f.stack)}

CacheRefs(cache) == {cache[i].attributes : i \in {j \in DOMAIN cache : cache[j].cached}}

\* the machine of one task while it runs: the cache and heap it works on, its
\* frame, and the addresses the other tasks hold
Machine(t) ==
    [cache |-> objectCache, heap |-> heap, f |-> task[t],
     pinned |-> UNION {RefsFrame(task[u]) : u \in Tasks \ {t}}]

LiveM(m) == CacheRefs(m.cache) \cup m.pinned \cup RefsFrame(m.f)

\* the lowest address nothing refers to: a freshly allocated attribute map
FreshAddr(m) == CHOOSE a \in Addrs \ LiveM(m) : \A b \in Addrs \ LiveM(m) : a <= b

\* unreferenced maps are garbage: they are dropped from the heap
Collect(m) == [a \in Addrs |-> IF a \in LiveM(m) THEN m.heap[a] ELSE EmptyMap]

Push(m, item) == [m EXCEPT !.f.stack = <<item>> \o @]
Pop(m) == [m EXCEPT !.f.stack = Tail(@)]
Top(m) == Head(m.f.stack)

\* a call returns v: the value is on its way to the innermost pending call
Deliver(m, v) == [m EXCEPT !.f.pc = "deliver", !.f.ret = v]

\* a call throws e: the error is on its way to the pending calls
Throw(m, e) == [m EXCEPT !.f.pc = "throw", !.f.ret = e]

RECURSIVE BfsLoop(_, _, _, _, _)
RECURSIVE BfsVisit(_, _, _, _, _, _)
RECURSIVE ExecLoop(_)
RECURSIVE ArgsLoop(_)
RECURSIVE TickLoop(_)
RECURSIVE Run(_, _)
RECURSIVE trimStart(_)
RECURSIVE trimEnd(_)
RECURSIVE SplitLoop(_, _, _, _)
RECURSIVE toLowerCase(_)

----------------------------------------------------------------------------
(* WorldManager.getObjectById *)

\* lines 24-28 and 43: a cached object is returned at once (unless the load is
\* forced); otherwise the store is asked and the caller waits
getObjectById(m, id, forceDbLoad) ==
    IF ~forceDbLoad /\ IsCached(m.cache, id)
    THEN Deliver(m, CachedHandle(m.cache, id))
    ELSE [Push(m, [k |-> "getObjectById", id |-> id])
             EXCEPT !.f.pc = "get_req", !.f.fetchId = id]

\* lines 29-43, when the store has answered: a document becomes a new
\* GameObject, installed in the cache under the id asked for; not_found and
\* any other error yield null
getObjectByIdResume(m) ==
    LET id == Top(m).id
        doc == m.f.dbResp
        addr == FreshAddr(m)
        m1 == [Pop(m) EXCEPT !.f.pc = "run", !.f.fetchId = "", !.f.dbResp = NoDoc]
    IN IF doc.exists
       THEN Deliver([m1 EXCEPT
                        !.cache[id] =
                            WithLocation([cached |-> TRUE, rev |-> doc.rev,
                                          parentIds |-> doc.parentIds,
                                          attributes |-> addr], doc),
                        !.heap[addr] = doc.attributes],
                    WithLocation(Handle(id, doc.rev, doc.parentIds, addr), doc))
       ELSE Deliver(m1, GNull)

----------------------------------------------------------------------------
(* WorldManager.getAttributeValue: the inheritance lookup *)

\* line 113: an Attribute wrapper is unwrapped, anything else is returned as is
AttributeResult(attr) ==
    IF IsAttributeWrapper(attr) THEN ValueField(attr) ELSE attr

\* the lookup with the attribute tested for truthiness instead of presence
BfsVisitTruthy(m, currentObj, queue, head, visited, attributeName) ==
    IF currentObj = GNull
    THEN BfsLoop(m, queue, head, visited, attributeName)
    ELSE IF attributeName \in DOMAIN m.heap[currentObj.attributes]
            /\ m.heap[currentObj.attributes][attributeName] # GNull
    THEN Deliver(m, AttributeResult(m.heap[currentObj.attributes][attributeName]))
    ELSE LET NotVisited(p) == p \notin visited
         IN BfsLoop(m, queue \o SelectSeq(currentObj.parentIds, NotVisited), head,
                    visited, attributeName)

\* lines 109-123, for the object getObjectById returned for the dequeued id
BfsVisit(m, currentObj, queue, head, visited, attributeName) ==
    IF currentObj = GNull
    THEN BfsLoop(m, queue, head, visited, attributeName)
    ELSE IF attributeName \in DOMAIN m.heap[currentObj.attributes]
    THEN Deliver(m, AttributeResult(m.heap[currentObj.attributes][attributeName]))
    ELSE LET NotVisited(p) == p \notin visited
         IN BfsLoop(m, queue \o SelectSeq(currentObj.parentIds, NotVisited), head,
                    visited, attributeName)

\* the ids the lookup in progress has dequeued and gone on to process
Processing(m, currentId) == [m EXCEPT !.f.processed = Append(@, currentId)]

\* the while loop without the test of line 104: every dequeued id is processed
BfsLoopRevisit(m, queue, head, visited, attributeName) ==
    IF head > Len(queue)
    THEN Deliver(m, Undefined)
    ELSE getObjectById(
             Push(Processing(m, queue[head]),
                  [k |-> "getAttributeValue", queue |-> queue,
                   head |-> head + 1,
                   visited |-> visited \cup {queue[head]},
                   attributeName |-> attributeName]),
             queue[head], FALSE)

\* lines 101-108 and 124-125: the while loop; getObjectById is awaited for
\* every id that is dequeued and not yet visited
BfsLoop(m, queue, head, visited, attributeName) ==
    IF head > Len(queue)
    THEN Deliver(m, Undefined)
    ELSE LET currentId == queue[head]
         IN IF currentId \in visited
            THEN BfsLoop(m, queue, head + 1, visited, attributeName)
            ELSE getObjectById(
                     Push(Processing(m, currentId),
                          [k |-> "getAttributeValue", queue |-> queue,
                           head |-> head + 1,
                           visited |-> visited \cup {currentId},
                           attributeName |-> attributeName]),
                     currentId, FALSE)

\* lines 93-95
getAttributeValue(m, objId, attributeName) ==
    BfsLoop([m EXCEPT !.f.processed = << >>], <<objId>>, 1, {}, attributeName)

----------------------------------------------------------------------------
(* WorldManager.saveObject *)

\* what a task has seen so far: the last result it was handed; every read
\* that came right after a write of the same id, with that write; and every
\* save that was refused
Observe(m, e) ==
    LET last == m.f.obs
        follows == /\ last.op \in {"put", "set_attr"}
                   /\ e.op \in {"get", "get_attr"}
                   /\ e.id = last.id
    IN [m EXCEPT !.f.obs = e,
                 !.f.pairs = IF follows THEN @ \cup {[w |-> last, r |-> e]} ELSE @,
                 !.f.refused = IF e.op = "save_failed" THEN @ \cup {e.id} ELSE @]

\* line 64
BaseParentIds(id) == IF id = BASE_OBJECT_ID THEN << >> ELSE <<BASE_OBJECT_ID>>

\* line 47: the current document is always fetched from the store first
saveObject(m, objData) ==
    getObjectById(Push(m, [k |-> "saveObject", objData |-> objData]),
                  objData.id, TRUE)

\* lines 51-83, once existingDoc is known: the object to store takes every
\* field objData has, the rest from existingDoc or the defaults, and the
\* revision of existingDoc (without one, the revision objData carries, if
\* any); it is serialised and sent to the store
saveObjectInsert(m, existingDoc) ==
    LET objData == Top(m).objData
        parentIds == IF "parentIds" \in DOMAIN objData THEN objData.parentIds
                     ELSE IF existingDoc # GNull THEN existingDoc.parentIds
                     ELSE BaseParentIds(objData.id)
        attributes == IF "attributes" \in DOMAIN objData THEN objData.attributes
                      ELSE IF existingDoc # GNull THEN existingDoc.attributes
                      ELSE FreshAddr(m)
        located == IF "locationId" \in DOMAIN objData \/ existingDoc = GNull
                   THEN objData ELSE existingDoc
        rev == IF "rev" \in DOMAIN objData THEN objData.rev ELSE 0
        fullObject == IF existingDoc # GNull
                      THEN WithLocation(Handle(existingDoc.id, existingDoc.rev,
                                               parentIds, attributes), located)
                      ELSE WithLocation(Handle(objData.id, rev, parentIds, attributes),
                                        located)
    IN [Push(Pop(m), [k |-> "insert", objData |-> objData, fullObject |-> fullObject])
           EXCEPT !.f.pc = "ins_req",
                  !.f.body = WithLocation([exists |-> TRUE, id |-> fullObject.id,
                                           rev |-> fullObject.rev,
                                           parentIds |-> parentIds,
                                           attributes |-> m.heap[attributes]],
                                          fullObject)]

\* line 84: the message of the Error thrown for a refused insert; what the
\* store said of the refusal is left out
SaveFailed(id) == "Failed to save object " \o id

\* lines 84-89 with the cache left as it is
saveObjectNoCacheSet(m) ==
    LET m1 == [Pop(m) EXCEPT !.f.pc = "run", !.f.insResp = IdleFrame.insResp]
    IN IF m.f.insResp.ok
       THEN Deliver(m1, [Top(m).fullObject EXCEPT !.rev = m.f.insResp.rev])
       ELSE Throw(m1, SaveFailed(Top(m).fullObject.id))

\* lines 84-89, when the store has answered the insert: a refused insert
\* throws; an accepted one gives the object its new revision and only then
\* puts it in the cache
saveObjectResume(m) ==
    LET fullObject == [Top(m).fullObject EXCEPT !.rev = m.f.insResp.rev]
        m1 == [Pop(m) EXCEPT !.f.pc = "run", !.f.insResp = IdleFrame.insResp]
    IN IF m.f.insResp.ok
       THEN Deliver([m1 EXCEPT
                        !.cache[fullObject.id] =
                            WithLocation([cached |-> TRUE, rev |-> fullObject.rev,
                                          parentIds |-> fullObject.parentIds,
                                          attributes |-> fullObject.attributes],
                                         fullObject)],
                    fullObject)
       ELSE Throw(Observe([m1 EXCEPT !.f.conflicts = @ + 1],
                          [op |-> "save_failed", id |-> fullObject.id]),
                  SaveFailed(fullObject.id))

----------------------------------------------------------------------------
(* A caller of the cache API: it awaits saveObject and getObjectById one      *)
(* after the other, as loadObjectsFromFile, loadCoreObjects and the G        *)
(* library do                                                               *)

\* the object a caller builds from parsed data: a new attribute map of its own
NewObjData(m, data) ==
    IF "attributes" \in DOMAIN data
    THEN [m EXCEPT !.heap[FreshAddr(m)] = data.attributes]
    ELSE m

ObjDataOf(m, data) ==
    IF "attributes" \in DOMAIN data
    THEN [data EXCEPT !.attributes = FreshAddr(m)]
    ELSE data

\* the caller's next awaited call
ClientLoop(m) ==
    LET it == Top(m)
    IN IF it.ops = << >> THEN Deliver(Pop(m), GNull)
       ELSE LET o == Head(it.ops)
                m1 == [m EXCEPT !.f.stack[1].ops = Tail(@),
                                !.f.stack[1].pending = o]
            IN IF o.op = "put"
               THEN saveObject(NewObjData(m1, o.data), ObjDataOf(m1, o.data))
               ELSE getObjectById(m1, o.id, FALSE)

\* the awaited call has returned v to the caller
ClientResume(m, v) ==
    LET o == Top(m).pending
    IN ClientLoop(
           Observe(m, IF o.op = "put"
                      THEN [op |-> "put", id |-> o.data.id, data |-> o.data]
                      ELSE [op |-> "get", id |-> o.id, found |-> v # GNull,
                            parentIds |-> IF v # GNull THEN v.parentIds ELSE << >>,
                            attributes |-> IF v # GNull THEN m.heap[v.attributes]
                                           ELSE EmptyMap]))

----------------------------------------------------------------------------
(* Strings: the JavaScript string operations the program uses *)

\* what String.prototype.trim and /\s+/ take for white space
IsSpace(c) == c \in {" ", "\t", "\r", "\n"}

trimStart(str) ==
    IF Len(str) >= 1 /\ IsSpace(SubSeq(str, 1, 1))
    THEN trimStart(SubSeq(str, 2, Len(str)))
    ELSE str

trimEnd(str) ==
    IF Len(str) >= 1 /\ IsSpace(SubSeq(str, Len(str), Len(str)))
    THEN trimEnd(SubSeq(str, 1, Len(str) - 1))
    ELSE str

\* rawInput.trim()
trim(str) == trimEnd(trimStart(str))

\* the terms of str from position i on; cur is the term being read
SplitLoop(str, i, cur, terms) ==
    IF i > Len(str) THEN Append(terms, cur)
    ELSE LET c == SubSeq(str, i, i)
         IN IF IsSpace(c)
            THEN IF i > 1 /\ IsSpace(SubSeq(str, i - 1, i - 1))
                 THEN SplitLoop(str, i + 1, cur, terms)
                 ELSE SplitLoop(str, i + 1, "", Append(terms, cur))
            ELSE SplitLoop(str, i + 1, cur \o c, terms)

\* cleanedInput.split(/\s+/)
split(str) == SplitLoop(str, 1, "", << >>)

UpperCaseLetters == "ABCDEFGHIJKLMNOPQRSTUVWXYZ"
LowerCaseLetters == "abcdefghijklmnopqrstuvwxyz"

LowerChar(c) ==
    IF \E k \in 1 .. Len(UpperCaseLetters) : SubSeq(UpperCaseLetters, k, k) = c
    THEN LET k == CHOOSE j \in 1 .. Len(UpperCaseLetters) :
                      SubSeq(UpperCaseLetters, j, j) = c
         IN SubSeq(LowerCaseLetters, k, k)
    ELSE c

\* terms[0].toLowerCase()
toLowerCase(str) ==
    IF str = "" THEN ""
    ELSE LowerChar(SubSeq(str, 1, 1)) \o toLowerCase(SubSeq(str, 2, Len(str)))

\* the position of the first '.' of a string, 0 without one
DotAt(str) ==
    LET dots == {k \in 1 .. Len(str) : SubSeq(str, k, k) = "."}
    IN IF dots = {} THEN 0 ELSE CHOOSE k \in dots : \A j \in dots : k <= j

RECURSIVE Join(_, _)
\* parts.join(sep)
Join(parts, sep) ==
    IF Len(parts) = 0 THEN ""
    ELSE IF Len(parts) = 1 THEN parts[1]
    ELSE parts[1] \o sep \o Join(Tail(parts), sep)

----------------------------------------------------------------------------
(* GLexer.tokenize (lexer.ts): the tokens of a G source text.  A cursor is  *)
(* the 1-based position of the next character; the line and the column of a *)
(* token, which only the log messages use, are left out.                    *)

Digits == "0123456789"

CharIn(c, str) == \E k \in 1 .. Len(str) : SubSeq(str, k, k) = c

\* gCode[cursor]; "" stands for undefined, past the end
CharAt(gCode, cursor) ==
    IF cursor >= 1 /\ cursor <= Len(gCode) THEN SubSeq(gCode, cursor, cursor) ELSE ""

IsDigit(c) == CharIn(c, Digits)
IsLetter(c) == CharIn(c, UpperCaseLetters) \/ CharIn(c, LowerCaseLetters)

\* /[a-zA-Z0-9_:\-]/
IsObjectRefChar(c) == IsLetter(c) \/ IsDigit(c) \/ CharIn(c, "_:-")

\* /^[a-zA-Z_+\-*\/%<>=!?^&]/ and the class of the characters that follow
IsSymbolStart(c) == IsLetter(c) \/ CharIn(c, "_+-*/%<>=!?^&")
IsSymbolChar(c) == IsSymbolStart(c) \/ IsDigit(c) \/ c = ":"

\* the character classes the loops of the lexer test
InClass(c, class) ==
    CASE class = "space" -> IsSpace(c)
      [] class = "digit" -> IsDigit(c)
      [] class = "objectRef" -> IsObjectRefChar(c)
      [] class = "symbol" -> IsSymbolChar(c)
      [] class = "comment" -> c # "\n"

\* the least number of a set of numbers
Least(S) == CHOOSE k \in S : \A j \in S : k <= j

\* while (cursor < gCode.length && class(gCode[cursor])) consumeChar():
\* the cursor after the run of class characters that starts at from
RunEnd(gCode, from, class) ==
    Least({k \in from .. Len(gCode) + 1 :
              k = Len(gCode) + 1 \/ ~InClass(CharAt(gCode, k), class)})

Token(type, value) == [type |-> type, value |-> value]

RECURSIVE StringLoop(_, _, _)
\* lexer.ts lines 94-109: the characters of a string literal up to the
\* closing quote or the end of the text; a backslash takes the next character
StringLoop(gCode, cursor, str) ==
    IF cursor > Len(gCode) \/ CharAt(gCode, cursor) = "\""
    THEN [str |-> str, cursor |-> cursor]
    ELSE IF CharAt(gCode, cursor) = "\\"
    THEN IF cursor + 1 <= Len(gCode)
         THEN LET escaped == CharAt(gCode, cursor + 1)
              IN StringLoop(gCode, cursor + 2,
                            str \o (IF escaped = "n" THEN "\n"
                                    ELSE IF escaped = "t" THEN "\t"
                                    ELSE escaped))
         ELSE StringLoop(gCode, cursor + 1, str)
    ELSE StringLoop(gCode, cursor + 1, str \o CharAt(gCode, cursor))

\* lexer.ts lines 141-147: the fraction after the digits that end at cursor
FractionEnd(gCode, cursor) ==
    IF CharAt(gCode, cursor) = "." /\ IsDigit(CharAt(gCode, cursor + 1))
    THEN RunEnd(gCode, cursor + 1, "digit")
    ELSE cursor

\* lexer.ts lines 134-149: the end of a number that starts at cursor
NumberEnd(gCode, cursor) ==
    FractionEnd(gCode,
                RunEnd(gCode, IF CharAt(gCode, cursor) = "-" THEN cursor + 1 ELSE cursor,
                       "digit"))

RECURSIVE TokenizeLoop(_, _, _)

\* the token of the text from cursor up to end is added
TextToken(gCode, cursor, end, type, tokens) ==
    TokenizeLoop(gCode, end, Append(tokens, Token(type, SubSeq(gCode, cursor, end - 1))))

\* lexer.ts lines 94-109: the string literal lit has been read; its closing
\* quote, if there is one, is passed
StringToken(gCode, lit, tokens) ==
    TokenizeLoop(gCode,
                 IF lit.cursor <= Len(gCode) THEN lit.cursor + 1 ELSE lit.cursor,
                 Append(tokens, Token("String", lit.str)))

\* lexer.ts lines 53-180: the token that starts with char at the cursor
TokenAt(gCode, cursor, char, next, tokens) ==
    CASE cursor > Len(gCode) -> Append(tokens, Token("EOF", "EOF"))
      [] char = "/" /\ next = "/" ->
             TokenizeLoop(gCode, RunEnd(gCode, cursor + 2, "comment"), tokens)
      [] char = "[" ->
             TokenizeLoop(gCode, cursor + 1, Append(tokens, Token("LBracket", char)))
      [] char = "]" ->
             TokenizeLoop(gCode, cursor + 1, Append(tokens, Token("RBracket", char)))
      [] char = "," ->
             TokenizeLoop(gCode, cursor + 1, Append(tokens, Token("Comma", char)))
      [] char = "@" \/ char = "." ->
             TokenizeLoop(gCode, cursor + 1, Append(tokens, Token("Operator", char)))
      [] char = "\"" -> StringToken(gCode, StringLoop(gCode, cursor + 1, ""), tokens)
      [] char = "#" ->
             TextToken(gCode, cursor, RunEnd(gCode, cursor + 1, "objectRef"),
                       "ObjectRef", tokens)
      [] IsDigit(char) \/ (char = "-" /\ IsDigit(next)) ->
             TextToken(gCode, cursor, NumberEnd(gCode, cursor), "Number", tokens)
      [] IsSymbolStart(char) ->
             TextToken(gCode, cursor, RunEnd(gCode, cursor + 1, "symbol"),
                       "Symbol", tokens)
      [] OTHER -> TokenizeLoop(gCode, cursor + 1, tokens)

\* the cursor is on a character that is no white space, or past the end
TokenizeAt(gCode, cursor, tokens) ==
    TokenAt(gCode, cursor, CharAt(gCode, cursor), CharAt(gCode, cursor + 1), tokens)

\* lexer.ts lines 41-182: white space is passed over (lines 46-51), then the
\* token that starts at the cursor is read
TokenizeLoop(gCode, from, tokens) ==
    TokenizeAt(gCode, RunEnd(gCode, from, "space"), tokens)

\* GLexer.tokenize
tokenize(gCode) == TokenizeLoop(gCode, 1, << >>)

----------------------------------------------------------------------------
(* GParser.parse (parser.ts): the commands of a token list.  A cursor is    *)
(* the 1-based position of the next token.  A parse step gives the value it *)
(* read and the cursor after it, or the Error it throws.                    *)

GNumber(n) == [kind |-> "number", n |-> n]

Parsed(value, cursor) == [ok |-> TRUE, value |-> value, cursor |-> cursor]
ParseError(message) == [ok |-> FALSE, error |-> message]

\* a command; func is the head as it was read, a string unless the head is
\* one of the keywords
Cmd(func, args) == [func |-> func, args |-> args]

RECURSIVE DigitsValue(_, _)
DigitsValue(str, acc) ==
    IF str = "" THEN acc
    ELSE DigitsValue(SubSeq(str, 2, Len(str)),
                     10 * acc + (CHOOSE d \in 0 .. 9 :
                                     SubSeq(Digits, d + 1, d + 1) = SubSeq(str, 1, 1)))

RECURSIVE StripZeros(_)
StripZeros(str) ==
    IF str # "" /\ SubSeq(str, Len(str), Len(str)) = "0"
    THEN StripZeros(SubSeq(str, 1, Len(str) - 1))
    ELSE str

\* parser.ts lines 111-113: parseInt of a text without a fraction, parseFloat
\* of one with it; a fraction that is not zero is kept as its digits
NumberOf(text) ==
    LET neg == CharAt(text, 1) = "-"
        body == IF neg THEN SubSeq(text, 2, Len(text)) ELSE text
        d == DotAt(body)
        whole == DigitsValue(IF d = 0 THEN body ELSE SubSeq(body, 1, d - 1), 0)
        frac == IF d = 0 THEN "" ELSE StripZeros(SubSeq(body, d + 1, Len(body)))
        n == IF neg THEN 0 - whole ELSE whole
    IN IF frac = "" THEN GNumber(n)
       ELSE [kind |-> "number", n |-> n, neg |-> neg, frac |-> frac]

\* parser.ts lines 150-152 and 145-148
isAtEnd(tokens, cursor) == tokens[cursor].type = "EOF"
check(tokens, cursor, type) == ~isAtEnd(tokens, cursor) /\ tokens[cursor].type = type

UnexpectedToken(token) ==
    "Parser: Unexpected token in expression: " \o token.type \o " '" \o token.value \o "'"

\* parser.ts lines 114-120: a symbol is a keyword or stands for its text
SymbolValue(value, lower) ==
    IF lower = "true" THEN GBool(TRUE)
    ELSE IF lower = "false" THEN GBool(FALSE)
    ELSE IF lower = "nil" \/ lower = "null" THEN GNull
    ELSE GString(value)

\* parser.ts lines 107-129: the value of the token that was passed
PrimaryOf(token, after) ==
    CASE token.type = "String" -> Parsed(GString(token.value), after)
      [] token.type = "Number" -> Parsed(NumberOf(token.value), after)
      [] token.type = "ObjectRef" -> Parsed(GString(token.value), after)
      [] token.type = "Symbol" ->
             Parsed(SymbolValue(token.value, toLowerCase(token.value)), after)
      [] token.type = "Operator" -> Parsed(GString(token.value), after)
      [] OTHER -> ParseError(UnexpectedToken(token))

\* the token before the cursor
Previous(tokens, after) == PrimaryOf(tokens[after - 1], after)

\* parser.ts lines 104-130; advance (lines 140-143) stays on the last token
\* when the cursor is at the end
parsePrimary(tokens, cursor) ==
    Previous(tokens, IF isAtEnd(tokens, cursor) THEN cursor ELSE cursor + 1)

RECURSIVE parseExpression(_, _)
RECURSIVE parseArgument(_, _)
RECURSIVE ParseArgs(_, _, _, _)

\* parser.ts lines 86-88: the argument arg has been read
ArgRead(tokens, arg, funcName, args) ==
    IF arg.ok
    THEN ParseArgs(tokens, arg.cursor, funcName, Append(args, arg.value))
    ELSE arg

\* parser.ts lines 79-92 with the cursor after an optional comma
ArgsAt(tokens, cursor, afterComma, funcName, args) ==
    IF check(tokens, cursor, "RBracket") \/ check(tokens, afterComma, "RBracket")
    THEN Parsed(Cmd(funcName, args),
                IF check(tokens, cursor, "RBracket") THEN cursor + 1
                ELSE afterComma + 1)
    ELSE IF isAtEnd(tokens, cursor)
    THEN ParseError("Parser: Expect ']' to end an expression. Found EOF 'EOF'")
    ELSE ArgRead(tokens, parseArgument(tokens, afterComma), funcName, args)

\* parser.ts lines 79-92: the arguments after the head, then the closing ']'
ParseArgs(tokens, cursor, funcName, args) ==
    ArgsAt(tokens, cursor,
           IF check(tokens, cursor, "Comma") THEN cursor + 1 ELSE cursor,
           funcName, args)

\* parser.ts lines 44-77: the head element has been read; a head that is no
\* name makes the expression a list
HeadRead(tokens, headElement) ==
    IF ~headElement.ok THEN headElement
    ELSE IF tokens[headElement.cursor - 1].type \in {"Symbol", "Operator", "ObjectRef"}
    THEN ParseArgs(tokens, headElement.cursor, headElement.value, << >>)
    ELSE ParseArgs(tokens, headElement.cursor, GString("list"), <<headElement.value>>)

\* parser.ts lines 31-77: '[' is the token at the cursor
parseExpression(tokens, cursor) ==
    IF check(tokens, cursor + 1, "RBracket")
    THEN Parsed(Cmd(GString("list"), << >>), cursor + 2)
    ELSE HeadRead(tokens, parseArgument(tokens, cursor + 1))

\* parser.ts lines 96-101
parseArgument(tokens, cursor) ==
    IF check(tokens, cursor, "LBracket") THEN parseExpression(tokens, cursor)
    ELSE parsePrimary(tokens, cursor)

RECURSIVE ParseLoop(_, _, _)

\* parser.ts lines 19-21: the expression expr has been read
ExpressionRead(tokens, expr, commands) ==
    IF expr.ok
    THEN ParseLoop(tokens, expr.cursor, Append(commands, expr.value))
    ELSE expr

\* parser.ts lines 15-26: a top-level token that is not '[' is skipped
ParseLoop(tokens, cursor, commands) ==
    IF isAtEnd(tokens, cursor) THEN [ok |-> TRUE, commands |-> commands]
    ELSE IF check(tokens, cursor, "LBracket")
    THEN ExpressionRead(tokens, parseExpression(tokens, cursor), commands)
    ELSE ParseLoop(tokens, cursor + 1, commands)

\* GParser.parse
parse(tokens) == ParseLoop(tokens, 1, << >>)

----------------------------------------------------------------------------
(* G code: the scripts stored in the model's worlds *)

Quote(str) == "\"" \o str \o "\""

\* [log "t"] [set_attr REF "color" "blue"] [get_attr REF "color"]
SetGetScript(ref) ==
    "[log " \o Quote("t") \o "] [set_attr " \o ref \o " " \o Quote("color")
    \o " " \o Quote("blue") \o "] [get_attr " \o ref \o " " \o Quote("color") \o "]"

\* [log "t"] [set_attr [get_object #a] "color" "blue"] [get_attr [get_object #a] "color"]
SetGetHandleScript ==
    "[log " \o Quote("t") \o "] [set_attr [get_object #a] " \o Quote("color")
    \o " " \o Quote("blue") \o "] [get_attr [get_object #a] " \o Quote("color") \o "]"

\* [log "t"] [set_attr #a "color" [get_attr #d "boxed"]] [get_attr #a "color"]
SetGetBoxedScript ==
    "[log " \o Quote("t") \o "] [set_attr #a " \o Quote("color")
    \o " [get_attr #d " \o Quote("boxed") \o "]] [get_attr #a " \o Quote("color") \o "]"

\* [log "t"] [set_attr #a "last" "x"]
SetLastScript ==
    "[log " \o Quote("t") \o "] [set_attr #a " \o Quote("last") \o " " \o Quote("x") \o "]"

\* [log "t"] [send #c "hi"]
SendScript == "[log " \o Quote("t") \o "] [send #c " \o Quote("hi") \o "]"

\* [log "m"] [set_attr "@this" "last" "x"]
OnMessageScript ==
    "[log " \o Quote("m") \o "] [set_attr " \o Quote("@this") \o " " \o Quote("last")
    \o " " \o Quote("x") \o "]"

\* [log "t"] [get_attr "@this" "color"]
LookScript ==
    "[log " \o Quote("t") \o "] [get_attr " \o Quote("@this") \o " " \o Quote("color") \o "]"

\* [send @actor [get_attr @executor "description"]]
DescribeScript == "[send @actor [get_attr @executor " \o Quote("description") \o "]]"

\* [log "t"] [send "@actor" [get_attr "@executor" "description"]]
DescribeQuotedScript ==
    "[log " \o Quote("t") \o "] [send " \o Quote("@actor") \o " [get_attr "
    \o Quote("@executor") \o " " \o Quote("description") \o "]]"

\* [log "t"] [if C [log "then"] [log "else"]]
IfScript(c) ==
    "[log " \o Quote("t") \o "] [if " \o c \o " [log " \o Quote("then")
    \o "] [log " \o Quote("else") \o "]]"

\* a string literal whose text is the G code gCode, which holds no backslash
Literal(gCode) ==
    Quote(Join([k \in 1 .. Len(gCode) |->
                   IF SubSeq(gCode, k, k) = "\"" THEN "\\\"" ELSE SubSeq(gCode, k, k)],
               ""))

\* [log "t"] [if C "[log \"then\"]" "[log \"else\"]"]
IfTextScript(c) ==
    "[log " \o Quote("t") \o "] [if " \o c \o " "
    \o Literal("[log " \o Quote("then") \o "]") \o " "
    \o Literal("[log " \o Quote("else") \o "]") \o "]"

\* [log "r"] [#room]: runs the run attribute of #room
RecurseScript == "[log " \o Quote("r") \o "] [#room]"

\* [log "t"] [send "@actor" "ping"]
PingScript ==
    "[log " \o Quote("t") \o "] [send " \o Quote("@actor") \o " " \o Quote("ping") \o "]"

\* [log "m"] [send "@this" "again"]
EchoScript ==
    "[log " \o Quote("m") \o "] [send " \o Quote("@this") \o " " \o Quote("again") \o "]"

\* [+ 1 [unknown]]
SumScript == "[+ 1 [unknown]]"

\* [log "t"] [+ 1 [unknown]] [log "after"]
SumLaterScript ==
    "[log " \o Quote("t") \o "] [+ 1 [unknown]] [log " \o Quote("after") \o "]"

\* [loop [log "x"]]
LoopScript == "[loop [log " \o Quote("x") \o "]]"

\* [log "t"] [get_attr #d "color"]
TouchScript == "[log " \o Quote("t") \o "] [get_attr #d " \o Quote("color") \o "]"

\* [log "t"] [set_attr #a "color" "blue"]
SetColorScript ==
    "[log " \o Quote("t") \o "] [set_attr #a " \o Quote("color") \o " " \o Quote("blue")
    \o "]"

\* [send #player_prototype "hi"]
HiScript == "[send #player_prototype " \o Quote("hi") \o "]"

\* [log "m"]
LogScript == "[log " \o Quote("m") \o "]"

\* the ways a script names an object: by id, and by the three context names,
\* bare and as string literals
RefForms == {"#a", "@this", Quote("@this"), Quote("@executor")}

Scripts ==
    {SetGetScript(ref) : ref \in RefForms}
    \cup {SetGetHandleScript, SetGetBoxedScript, SetLastScript, SendScript,
          OnMessageScript, LookScript, DescribeScript, DescribeQuotedScript,
          LogScript, RecurseScript, PingScript, EchoScript, SumScript,
          SumLaterScript, LoopScript, TouchScript, SetColorScript, HiScript}
    \cup {IfScript(c) : c \in {"true", "false"}}
    \cup {IfTextScript(c) : c \in {"true", "false"}}

\* the commands of the stored scripts, read once
ParsedScripts == [gCode \in Scripts |-> parse(tokenize(gCode))]

\* GEngine.parse (index.ts lines 17-21): the commands the lexer and the parser
\* make of the source text, or the Error the parser throws
GEngineParse(gCode) ==
    IF gCode \in Scripts THEN ParsedScripts[gCode] ELSE parse(tokenize(gCode))

----------------------------------------------------------------------------
(* The G engine: GEngine.executeAttribute and GInterpreter.execute *)

MAX_CALL_DEPTH == 100

\* 'func' in arg && 'args' in arg
IsCommand(arg) == "func" \in DOMAIN arg /\ "args" \in DOMAIN arg

IsString(v) == "kind" \in DOMAIN v /\ v.kind = "string"

\* typeof v === 'object' && v !== null && 'id' in v
IsGameObject(v) == "kind" \in DOMAIN v /\ v.kind = "gameobject"

StartsWith(str, c) == Len(str) >= 1 /\ SubSeq(str, 1, 1) = c

IsNumber(v) == "kind" \in DOMAIN v /\ v.kind = "number"
IsBoolean(v) == "kind" \in DOMAIN v /\ v.kind = "boolean"

\* Array.isArray(v): the value of a [list ...]
GList(items) == [kind |-> "list", items |-> items]
IsList(v) == "kind" \in DOMAIN v /\ v.kind = "list"

RECURSIVE NatToString(_)
NatToString(n) ==
    IF n < 10 THEN SubSeq(Digits, n + 1, n + 1)
    ELSE NatToString(n \div 10) \o SubSeq(Digits, (n % 10) + 1, (n % 10) + 1)

\* String(n) of a number
NumberToString(v) ==
    (IF v.n < 0 \/ ("neg" \in DOMAIN v /\ v.neg) THEN "-" ELSE "")
    \o NatToString(IF v.n < 0 THEN 0 - v.n ELSE v.n)
    \o (IF "frac" \in DOMAIN v THEN "." \o v.frac ELSE "")

RECURSIVE StringOf(_)
\* String(v)
StringOf(v) ==
    IF IsString(v) THEN v.s
    ELSE IF v = GNull THEN "null"
    ELSE IF v = Undefined THEN "undefined"
    ELSE IF IsBoolean(v) THEN (IF v.b THEN "true" ELSE "false")
    ELSE IF IsNumber(v) THEN NumberToString(v)
    ELSE IF IsList(v)
    THEN Join([k \in 1 .. Len(v.items) |->
                  IF v.items[k] \in {GNull, Undefined} THEN ""
                  ELSE StringOf(v.items[k])], ",")
    ELSE "[object Object]"

\* context.field || null
CtxField(context, field) ==
    IF field \in DOMAIN context THEN context[field] ELSE GNull

\* {...defaults, ...over}
Spread(defaults, over) ==
    [k \in DOMAIN defaults \cup DOMAIN over |->
        IF k \in DOMAIN over THEN over[k] ELSE defaults[k]]

\* a stdlib call that is neither a successful set_attr nor a get_attr
OtherCall == [op |-> "other"]

\* interpreter.ts lines 134-147
resolveValue(val, context) ==
    IF IsString(val) /\ val.s = "@this" THEN CtxField(context, "thisObject")
    ELSE IF IsString(val) /\ val.s = "@actor" THEN CtxField(context, "actor")
    ELSE IF IsString(val) /\ val.s = "@executor" THEN CtxField(context, "executor")
    ELSE val

\* world/index.ts lines 202-218; the result goes to the pending call
resolveGObjectRef(m, ref, context) ==
    IF ~IsString(ref) THEN Deliver(m, GNull)
    ELSE IF StartsWith(ref.s, "#") THEN getObjectById(m, ref.s, FALSE)
    ELSE IF ref.s = "@this" /\ CtxField(context, "thisObject") # GNull
    THEN Deliver(m, context.thisObject)
    ELSE IF ref.s = "@actor" /\ CtxField(context, "actor") # GNull
    THEN Deliver(m, context.actor)
    ELSE IF ref.s = "@executor" /\ CtxField(context, "executor") # GNull
    THEN Deliver(m, context.executor)
    ELSE Deliver(m, GNull)

\* interpreter.ts line 19
MaxCallDepthExceeded ==
    "G execution: Max call depth exceeded. Possible infinite recursion."

\* the executions of command lists that have begun and not ended
Nesting(m) == Cardinality({k \in 1 .. Len(m.f.stack) : m.f.stack[k].k = "execute"})

\* a run that nests without end never returns to the event loop: every await
\* on its way is answered at once, so no other callback of the server runs
Diverged(m) == [m EXCEPT !.f.pc = "diverged", !.f.stack = << >>]

\* interpreter.ts lines 11-32: a new scope one call deeper; the loop over the
\* commands starts before the first one, with null as the last result
execute(m, astNodes, context, initialArgs) ==
    LET callDepth == (IF "callDepth" \in DOMAIN context THEN context.callDepth ELSE 0) + 1
        nesting == Nesting(m) + 1
    IN IF callDepth > MAX_CALL_DEPTH
       THEN Throw(m, MaxCallDepthExceeded)
       ELSE IF nesting > MaxFrames
       THEN Diverged(m)
       ELSE Deliver(Push([m EXCEPT !.f.deepest = IF nesting > @ THEN nesting ELSE @],
                         [k |-> "execute", astNodes |-> astNodes, i |-> 0,
                          ctx |-> Spread(context, [callDepth |-> callDepth]),
                          initialArgs |-> initialArgs,
                          lastResult |-> GNull]),
                    GNull)

\* execute called without initialArgs, and with them
NoArgs == [given |-> FALSE, args |-> << >>]
WithArgs(args) == [given |-> TRUE, args |-> args]

\* index.ts lines 32-33 and 72-73: the commands of the parsed text are run; the
\* Error of the parser is thrown on
executeParsed(m, ast, context, initialArgs) ==
    IF ast.ok THEN execute(m, ast.commands, context, initialArgs)
    ELSE Throw(m, ast.error)

\* index.ts lines 29-33 and 70-73: the text is parsed, then its commands run
executeCode(m, gCode, context, initialArgs) ==
    executeParsed(m, GEngineParse(gCode), context, initialArgs)

\* index.ts line 53
NotExecutable(attributeName, id) ==
    "Attribute " \o Quote(attributeName) \o " on object " \o Quote(id)
    \o " is not executable G code or not found."

\* index.ts lines 36-74: the attribute is read from the object's own map; the
\* base context is spread last
executeAttribute(m, obj, attributeName, args, baseContext) ==
    LET attrs == m.heap[obj.attributes]
        attribute == IF attributeName \in DOMAIN attrs THEN attrs[attributeName]
                     ELSE Undefined
        gCode == IF IsAttributeWrapper(attribute) THEN attribute.value
                 ELSE IF IsString(attribute) THEN attribute
                 ELSE GNull
        executionContext ==
            Spread([executor |-> obj,
                    actor |-> IF CtxField(baseContext, "actor") # GNull
                              THEN baseContext.actor ELSE obj,
                    thisObject |-> obj],
                   baseContext)
    IN IF ~IsString(gCode)
       THEN Throw(m, NotExecutable(attributeName, obj.id))
       ELSE executeCode(m, gCode.s, executionContext, WithArgs(args))

----------------------------------------------------------------------------
(* The G standard library (gStdLib.ts) *)

\* the logger's record of a G log call
Logged(m, message) == [m EXCEPT !.f.logged = Append(@, message)]

RECURSIVE JsonStringify(_)
\* JSON.stringify(v) of a value that is no game object; the text of an
\* attribute map is not spelled out
JsonStringify(v) ==
    IF IsString(v) THEN Quote(v.s)
    ELSE IF IsList(v)
    THEN "[" \o Join([k \in 1 .. Len(v.items) |->
                        IF v.items[k] = Undefined THEN "null"
                        ELSE JsonStringify(v.items[k])], ",") \o "]"
    ELSE IF IsCommand(v) \/ ("kind" \in DOMAIN v /\ v.kind = "object") THEN "{...}"
    ELSE StringOf(v)

\* gStdLib.ts lines 15-22: how log shows one argument
LogPart(arg) ==
    IF IsGameObject(arg) THEN "#" \o arg.id
    ELSE IF IsList(arg) \/ IsCommand(arg)
            \/ ("kind" \in DOMAIN arg /\ arg.kind = "object")
    THEN JsonStringify(arg)
    ELSE StringOf(arg)

\* gStdLib.ts lines 14-25: the message parts, joined by spaces, are logged
log(m, args, context) ==
    Deliver(Observe(Logged(m, Join([k \in 1 .. Len(args) |-> LogPart(args[k])], " ")),
                    OtherCall),
            GNull)

\* Number(v) || 0 for the values the scripts add: a number is itself, a
\* string that reads as a whole number is that number, true is 1, and
\* everything else (NaN and 0 alike) is 0
NumberOrZero(v) ==
    IF IsNumber(v) THEN v.n
    ELSE IF IsBoolean(v) THEN (IF v.b THEN 1 ELSE 0)
    ELSE IF IsString(v) /\ trim(v.s) # ""
            /\ \A k \in 1 .. Len(trim(v.s)) :
                   \/ IsDigit(SubSeq(trim(v.s), k, k))
                   \/ (k = 1 /\ Len(trim(v.s)) > 1 /\ SubSeq(trim(v.s), 1, 1) \in {"-", "+"})
    THEN (IF SubSeq(trim(v.s), 1, 1) = "+"
          THEN NumberOf(SubSeq(trim(v.s), 2, Len(trim(v.s)))).n
          ELSE NumberOf(trim(v.s)).n)
    ELSE 0

RECURSIVE SumOf(_, _)
SumOf(args, sum) ==
    IF Len(args) = 0 THEN sum ELSE SumOf(Tail(args), sum + NumberOrZero(args[1]))

\* gStdLib.ts line 28: '+'
plus(m, args) == Deliver(Observe(m, OtherCall), GNumber(SumOf(args, 0)))

\* gStdLib.ts lines 52-54: 'list'
list(m, args) == Deliver(Observe(m, OtherCall), GList(args))

\* gStdLib.ts lines 128 and 163: what G takes for false
IsFalsey(v) == v \in {GBool(FALSE), GNumber(0), GNull, GString("")}

\* gStdLib.ts lines 159-164: 'not'
not(m, args) ==
    Deliver(Observe(m, OtherCall), GBool(Len(args) = 0 \/ IsFalsey(args[1])))

\* gStdLib.ts lines 120-151: 'if'.  The arguments have been evaluated
\* before the function is called; the chosen one is run if it is a text, a
\* command or a list of commands, and returned as it is otherwise
if(m, args, context) ==
    LET branchToExecute ==
            IF ~IsFalsey(args[1]) THEN args[2]
            ELSE IF Len(args) > 2 THEN args[3] ELSE GNull
        m1 == Observe(m, OtherCall)
    IN IF Len(args) < 2 \/ branchToExecute = GNull THEN Deliver(m1, GNull)
       ELSE IF IsString(branchToExecute)
       THEN executeCode(m1, branchToExecute.s, context, NoArgs)
       ELSE IF IsCommand(branchToExecute)
       THEN execute(m1, <<branchToExecute>>, context, NoArgs)
       ELSE IF IsList(branchToExecute)
               /\ \A k \in 1 .. Len(branchToExecute.items) :
                      IsCommand(branchToExecute.items[k])
       THEN execute(m1, branchToExecute.items, context, NoArgs)
       ELSE Deliver(m1, branchToExecute)

\* lines 80-85, 101-106, 176-181: the first argument names or is the target
ResolveTarget(m, objRefOrObject, context) ==
    IF IsString(objRefOrObject) THEN resolveGObjectRef(m, objRefOrObject, context)
    ELSE IF IsGameObject(objRefOrObject) THEN Deliver(m, objRefOrObject)
    ELSE Deliver(m, GNull)

\* lines 75-79
get_attr(m, args, context) ==
    IF Len(args) < 2 THEN Deliver(Observe(m, OtherCall), GNull)
    ELSE ResolveTarget(Push(m, [k |-> "get_attr", attrName |-> StringOf(args[2])]),
                       args[1], context)

\* lines 87-91
get_attrResolved(m, targetObj) ==
    IF targetObj = GNull
    THEN Deliver(Observe(Pop(m), OtherCall), GNull)
    ELSE getAttributeValue(
             [m EXCEPT !.f.stack[1] = [k |-> "get_attr_return", id |-> targetObj.id,
                                       attrName |-> Top(m).attrName]],
             targetObj.id, Top(m).attrName)

get_attrReturn(m, v) ==
    Deliver(Observe(Pop(m), [op |-> "get_attr", id |-> Top(m).id,
                             name |-> Top(m).attrName, result |-> v]),
            v)

\* lines 94-98
set_attr(m, args, context) ==
    IF Len(args) < 3 THEN Deliver(Observe(m, OtherCall), GBool(FALSE))
    ELSE ResolveTarget(Push(m, [k |-> "set_attr", attrName |-> StringOf(args[2]),
                                valueToSet |-> args[3]]),
                       args[1], context)

\* targetObj.attributes[attrName] = valueToSet
AssignAttr(attrs, attrName, valueToSet) ==
    [n \in DOMAIN attrs \cup {attrName} |->
        IF n = attrName THEN valueToSet ELSE attrs[n]]

\* lines 108-113: the map of the object in hand is changed in place, then the
\* object is saved
set_attrResolved(m, targetObj) ==
    LET it == Top(m)
    IN IF targetObj = GNull
       THEN Deliver(Observe(Pop(m), OtherCall), GBool(FALSE))
       ELSE saveObject(
                [m EXCEPT !.heap[targetObj.attributes] =
                              AssignAttr(@, it.attrName, it.valueToSet),
                          !.f.stack[1] = [k |-> "set_attr_save",
                                          targetObj |-> targetObj,
                                          attrName |-> it.attrName,
                                          valueToSet |-> it.valueToSet]],
                targetObj)

\* line 114
set_attrReturn(m) ==
    Deliver(Observe(Pop(m), [op |-> "set_attr", id |-> Top(m).targetObj.id,
                             name |-> Top(m).attrName,
                             value |-> Top(m).valueToSet]),
            GBool(TRUE))

\* lines 170-173
send(m, args, context) ==
    IF Len(args) < 2 THEN Deliver(Observe(m, OtherCall), GNull)
    ELSE ResolveTarget(Push(m, [k |-> "send", messageContentSource |-> args[2],
                                ctx |-> context]),
                       args[1], context)

\* lines 224-236: the target's own on_message runs with the sender and the
\* message as its arguments; whatever it throws is logged and dropped
sendToHandler(m, targetObj, messageToSend) ==
    LET context == Top(m).ctx
    IN executeAttribute(
           [m EXCEPT !.f.stack[1] = [k |-> "send_try", targetObj |-> targetObj]],
           targetObj, "on_message",
           <<CtxField(context, "actor"), messageToSend>>,
           [actor |-> CtxField(context, "actor"), executor |-> targetObj])

\* str.split('.')[0]
BeforeDot(str) == IF DotAt(str) = 0 THEN str ELSE SubSeq(str, 1, DotAt(str) - 1)

\* str.split('.')[1], or 'run'
AfterDot(str) ==
    IF DotAt(str) = 0 THEN "run"
    ELSE BeforeDot(SubSeq(str, DotAt(str) + 1, Len(str)))

\* lines 183-222: a message that starts with @ names where the message is
\* to be taken from; any other message is sent as it is
sendResolved(m, targetObj) ==
    LET it == Top(m)
        src == it.messageContentSource
        refToExecute == SubSeq(src.s, 2, Len(src.s))
    IN IF targetObj = GNull
       THEN Deliver(Observe(Pop(m), OtherCall), GNull)
       ELSE IF ~(IsString(src) /\ StartsWith(src.s, "@"))
       THEN sendToHandler(m, targetObj, src)
       ELSE IF StartsWith(refToExecute, "#")
       THEN resolveGObjectRef(
                [m EXCEPT !.f.stack[1] = [k |-> "send_msg_obj", targetObj |-> targetObj,
                                          ctx |-> it.ctx,
                                          objIdForMsg |-> BeforeDot(refToExecute),
                                          attrForMsg |-> AfterDot(refToExecute)]],
                GString(BeforeDot(refToExecute)), it.ctx)
       ELSE getAttributeValue(
                [m EXCEPT !.f.stack[1] = [k |-> "send_msg_attr", targetObj |-> targetObj,
                                          ctx |-> it.ctx,
                                          refToExecute |-> refToExecute]],
                it.ctx.executor.id, refToExecute)

\* lines 195-201
sendMsgObj(m, msgSourceObj) ==
    LET it == Top(m)
        m1 == [m EXCEPT !.f.stack[1] = [k |-> "send_msg", targetObj |-> it.targetObj,
                                        ctx |-> it.ctx]]
    IN IF msgSourceObj # GNull
       THEN executeAttribute(m1, msgSourceObj, it.attrForMsg, << >>,
                             [actor |-> CtxField(it.ctx, "actor"),
                              executor |-> msgSourceObj])
       ELSE sendToHandler(m1, it.targetObj,
                          GString("Error: Could not find object " \o it.objIdForMsg
                                  \o " for dynamic message content."))

\* lines 204-216
sendMsgAttr(m, attrVal) ==
    LET it == Top(m)
        m1 == [m EXCEPT !.f.stack[1] = [k |-> "send_msg", targetObj |-> it.targetObj,
                                        ctx |-> it.ctx]]
    IN IF IsString(attrVal)
       THEN executeCode(m1, attrVal.s, it.ctx, NoArgs)
       ELSE IF attrVal # Undefined
       THEN sendToHandler(m1, it.targetObj, attrVal)
       ELSE sendToHandler(m1, it.targetObj,
                          GString("Error: Attribute or variable " \o it.refToExecute
                                  \o " not found for dynamic message content."))

\* lines 240-246
get_object(m, args, context) ==
    IF Len(args) = 0 \/ ~IsString(args[1])
    THEN Deliver(Observe(m, OtherCall), GNull)
    ELSE resolveGObjectRef(Push(m, [k |-> "return"]), args[1], context)

----------------------------------------------------------------------------
(* GInterpreter: commands and their arguments *)

\* interpreter.ts line 130
FunctionNotFound(funcNameOrRef) ==
    "Interpreter: G Function, command type, or resolvable entity not found: "
    \o funcNameOrRef

\* gStdLib.ts lines 257-259: name.toLowerCase() of a head that is no string
NotAFunctionName == "name.toLowerCase is not a function"

\* interpreter.ts lines 69-131, for the library functions log, +, list, not,
\* if, get_attr, set_attr, send and get_object; the scripts call no other
\* library function.  The head of a parsed command is a string or
\* a keyword's value; the lexer never makes a head that starts with '@' and
\* is longer than one character (lexer.ts lines 83-87), so the branch of
\* lines 99-119 takes no command
executeSingleCommand(m, command, context, evaluatedArgs) ==
    LET funcNameOrRef == command.func
        name == toLowerCase(funcNameOrRef.s)
    IN IF ~IsString(funcNameOrRef) THEN Throw(m, NotAFunctionName)
       ELSE CASE name = "log" -> log(m, evaluatedArgs, context)
              [] name = "+" -> plus(m, evaluatedArgs)
              [] name = "list" -> list(m, evaluatedArgs)
              [] name = "not" -> not(m, evaluatedArgs)
              [] name = "if" -> if(m, evaluatedArgs, context)
              [] name = "get_attr" -> get_attr(m, evaluatedArgs, context)
              [] name = "set_attr" -> set_attr(m, evaluatedArgs, context)
              [] name = "send" -> send(m, evaluatedArgs, context)
              [] name = "get_object" -> get_object(m, evaluatedArgs, context)
              [] StartsWith(funcNameOrRef.s, "#") ->
                     resolveGObjectRef(
                         Push(m, [k |-> "call_attribute",
                                  targetObjId |-> BeforeDot(funcNameOrRef.s),
                                  attrName |-> AfterDot(funcNameOrRef.s),
                                  evaluatedArgs |-> evaluatedArgs, ctx |-> context]),
                         GString(BeforeDot(funcNameOrRef.s)), context)
              [] OTHER -> Throw(m, FunctionNotFound(funcNameOrRef.s))

\* lines 89-94
callAttribute(m, targetObj) ==
    LET it == Top(m)
    IN IF targetObj = GNull
       THEN Throw(Pop(m), "Interpreter: Object not found for G execution: "
                          \o it.targetObjId)
       ELSE executeAttribute(Pop(m), targetObj, it.attrName, it.evaluatedArgs, it.ctx)

\* lines 52-65: the arguments are evaluated left to right, a nested command
\* by running it; then the command itself runs (lines 40 and 59)
ArgsLoop(m) ==
    LET it == Top(m)
        rawArgs == it.command.args
    IN IF it.j > Len(rawArgs)
       THEN executeSingleCommand(Pop(m), it.command, it.ctx, it.done)
       ELSE LET arg == rawArgs[it.j]
                m1 == [m EXCEPT !.f.stack[1].j = @ + 1]
            IN IF IsCommand(arg)
               THEN ArgsLoop(Push(m1, [k |-> "args", command |-> arg, j |-> 1,
                                       done |-> << >>, ctx |-> it.ctx]))
               ELSE ArgsLoop([m1 EXCEPT !.f.stack[1].done =
                                            Append(@, resolveValue(arg, it.ctx))])

\* lines 33-48: the commands run in order; the first one is handed the
\* initialArgs whenever the caller passed any array, in place of its own
\* arguments, none of which is evaluated then
ExecLoop(m) ==
    LET it == Top(m)
    IN IF it.i > Len(it.astNodes)
       THEN Deliver(Pop(m), it.lastResult)
       ELSE IF it.i = 1 /\ it.initialArgs.given
       THEN ArgsLoop(Push(m, [k |-> "args", command |-> it.astNodes[it.i],
                              j |-> Len(it.astNodes[it.i].args) + 1,
                              done |-> it.initialArgs.args, ctx |-> it.ctx]))
       ELSE ArgsLoop(Push(m, [k |-> "args", command |-> it.astNodes[it.i], j |-> 1,
                              done |-> << >>, ctx |-> it.ctx]))

----------------------------------------------------------------------------
(* GameEngine.tick (gameEngine/index.ts lines 29-50) *)

\* JS truthiness of an attribute slot
Truthy(v) == v \notin {Undefined, GNull, GString(""), GBool(FALSE)}

OwnAttr(m, obj, name) ==
    IF name \in DOMAIN m.heap[obj.attributes] THEN m.heap[obj.attributes][name]
    ELSE Undefined

\* lines 38-47: the on_tick of every object of the snapshot that has one is
\* run and awaited, one object after the other; the objects it was run for
\* are noted in 'ticked'
TickLoop(m) ==
    LET it == Top(m)
    IN IF it.idx > Len(it.allObjects)
       THEN Deliver(Pop(m), GNull)
       ELSE LET obj == it.allObjects[it.idx]
                m1 == [m EXCEPT !.f.stack[1].idx = @ + 1]
            IN IF Truthy(OwnAttr(m, obj, "on_tick"))
               THEN executeAttribute([m1 EXCEPT !.f.ticked = Append(@, obj.id)],
                                     obj, "on_tick", << >>,
                                     [executor |-> obj, actor |-> obj])
               ELSE TickLoop(m1)

\* a loop body without the try: the failure leaves the tick
TickCatchRethrow(m, e) == Throw(Pop(m), e)

\* lines 43-45: the catch of the loop body writes the failure to the error log
TickCatch(m, e) ==
    LET it == Top(m)
        obj == it.allObjects[it.idx - 1]
    IN TickLoop([m EXCEPT !.f.errors = Append(@, [id |-> obj.id, error |-> e])])

\* world/index.ts lines 196-200: the cached objects, in the order of the cache
getAllCachedObjects(cache) ==
    LET IsIn(i) == IsCached(cache, i)
        ids == SelectSeq(IdSeq, IsIn)
    IN [k \in 1 .. Len(ids) |-> CachedHandle(cache, ids[k])]

----------------------------------------------------------------------------
(* Returning to the caller *)

\* the top-level call of the task has returned
Finished(m, v) ==
    [m EXCEPT !.f.pc = "finished", !.f.outcome = "returned", !.f.result = v]

----------------------------------------------------------------------------
(* The input pipeline: InputParser.parse and InputBinder.bindAndExecute *)

\* telnetServer.ts line 32: session.send writes the message to the socket of
\* the connection; the task keeps what it wrote
SessionSend(m, msg) == [m EXCEPT !.f.sent = Append(@, msg)]

\* inputBinder line 92: error.message || "Something went wrong trying to do that."
ErrorMessage(e) == IF e # "" THEN e ELSE "Something went wrong trying to do that."

DontUnderstand(verb) == "I don't understand how to " \o Quote(verb) \o "."

PLAYER_PROTOTYPE_ID == "#player_prototype"
TEMP_ACTOR_ID == "temp_actor"

\* inputBinder lines 94-97: no handler was found
bindNotFound(m, parsedCommand) ==
    Finished(SessionSend(m, DontUnderstand(parsedCommand.func)), Undefined)

\* inputBinder lines 69-82: the handler's attribute is executed with the
\* typed arguments, under the actor
bindExecute(m, actor, commandHandlerObject, commandAttributeName, parsedCommand) ==
    executeAttribute(
        Push([m EXCEPT !.f.call.handler = commandHandlerObject.id],
             [k |-> "bind_try", actor |-> actor, location |-> commandHandlerObject]),
        commandHandlerObject, commandAttributeName, parsedCommand.args,
        [executor |-> commandHandlerObject, actor |-> actor,
         thisObject |-> commandHandlerObject])

\* inputBinder lines 85-89: a non-blank string result is sent to the session
bindResult(m, result) ==
    IF IsString(result) /\ trim(result.s) # ""
    THEN Finished(SessionSend(Pop(m), result.s), Undefined)
    ELSE Finished(Pop(m), Undefined)

\* inputBinder lines 90-93: the error's message is sent to the session
bindCatch(m, e) == Finished(SessionSend(Pop(m), ErrorMessage(e)), Undefined)

\* inputBinder lines 51-55, for the value getAttributeValue found from the
\* location
bindOnLocation(m, v) ==
    LET it == Top(m)
    IN IF v # Undefined
       THEN bindExecute(Pop(m), it.actor, it.location, it.cmdAttrName,
                        it.parsedCommand)
       ELSE bindNotFound(Pop(m), it.parsedCommand)

\* inputBinder lines 50-51, for the object getObjectById returned for
\* actor.locationId
bindLocation(m, location) ==
    LET it == Top(m)
    IN IF location # GNull
       THEN getAttributeValue(
                Push(Pop(m), [k |-> "bind_on_location", actor |-> it.actor,
                              location |-> location,
                              cmdAttrName |-> it.cmdAttrName,
                              parsedCommand |-> it.parsedCommand]),
                location.id, it.cmdAttrName)
       ELSE bindNotFound(Pop(m), it.parsedCommand)

\* the binder with the actor's own handler passed over for the location's
bindOnActorLocationFirst(m, v) ==
    LET it == Top(m)
    IN IF "locationId" \in DOMAIN it.actor /\ it.actor.locationId # ""
       THEN getObjectById(Push(Pop(m), [it EXCEPT !.k = "bind_location"]),
                          it.actor.locationId, FALSE)
       ELSE IF v # Undefined
       THEN bindExecute(Pop(m), it.actor, it.actor, it.cmdAttrName, it.parsedCommand)
       ELSE bindNotFound(Pop(m), it.parsedCommand)

\* inputBinder lines 44-49, for the value getAttributeValue found from the
\* actor: anything but undefined makes the actor the handler; otherwise the
\* location is tried if the actor has a locationId
bindOnActor(m, v) ==
    LET it == Top(m)
    IN IF v # Undefined
       THEN bindExecute(Pop(m), it.actor, it.actor, it.cmdAttrName, it.parsedCommand)
       ELSE IF "locationId" \in DOMAIN it.actor /\ it.actor.locationId # ""
       THEN getObjectById(Push(Pop(m), [it EXCEPT !.k = "bind_location"]),
                          it.actor.locationId, FALSE)
       ELSE bindNotFound(Pop(m), it.parsedCommand)

\* inputBinder lines 26-44, for the object getObjectById returned for the
\* placeholder actor: without it a temporary actor is made in memory
bindActor(m, v) ==
    LET parsedCommand == Top(m).parsedCommand
        m0 == Pop(m)
        addr == FreshAddr(m0)
        actor == IF v # GNull THEN v
                 ELSE Handle(TEMP_ACTOR_ID, 0, <<BASE_OBJECT_ID>>, addr)
        m1 == IF v # GNull THEN m0 ELSE [m0 EXCEPT !.heap[addr] = EmptyMap]
        verb == parsedCommand.func
        cmdAttrName == "cmd_" \o verb
    IN IF verb = ""
       THEN Finished(SessionSend([m1 EXCEPT !.f.call.actor = actor.id],
                                 "What do you want to do?"), Undefined)
       ELSE getAttributeValue(
                Push([m1 EXCEPT !.f.call.actor = actor.id,
                                !.f.call.searched = cmdAttrName],
                     [k |-> "bind_on_actor", actor |-> actor,
                      cmdAttrName |-> cmdAttrName,
                      parsedCommand |-> parsedCommand]),
                actor.id, cmdAttrName)

\* inputBinder line 25
bindAndExecute(m, parsedCommand) ==
    getObjectById(Push(m, [k |-> "bind_actor", parsedCommand |-> parsedCommand]),
                  PLAYER_PROTOTYPE_ID, FALSE)

\* inputParser lines 28-64: the first term, lowercased, is the verb and the
\* other terms are its arguments as typed
InputParserParse(m, rawInput) ==
    LET cleanedInput == trim(rawInput)
        terms == split(cleanedInput)
        verb == toLowerCase(terms[1])
        args == [k \in 1 .. Len(terms) - 1 |-> GString(terms[k + 1])]
    IN IF cleanedInput = "" THEN Finished(m, Undefined)
       ELSE IF Len(terms) = 0 THEN Finished(SessionSend(m, "Huh?"), Undefined)
       ELSE bindAndExecute(m, [func |-> verb, args |-> args, raw |-> cleanedInput])

----------------------------------------------------------------------------
(* Values returned and errors thrown to the pending calls *)

\* a value is returned to the innermost pending call, which goes on with it
DeliverTo(m, v) ==
    IF m.f.stack = << >> THEN Finished(m, v)
    ELSE LET it == Top(m)
         IN CASE it.k = "getAttributeValue" ->
                    BfsVisit(Pop(m), v, it.queue, it.head, it.visited,
                             it.attributeName)
              [] it.k = "saveObject" -> saveObjectInsert(m, v)
              [] it.k = "client" -> ClientResume(m, v)
              [] it.k = "execute" ->
                    ExecLoop([m EXCEPT !.f.stack[1].lastResult = v,
                                       !.f.stack[1].i = @ + 1])
              [] it.k = "args" ->
                    ArgsLoop([m EXCEPT !.f.stack[1].done = Append(@, v)])
              [] it.k = "get_attr" -> get_attrResolved(m, v)
              [] it.k = "get_attr_return" -> get_attrReturn(m, v)
              [] it.k = "set_attr" -> set_attrResolved(m, v)
              [] it.k = "set_attr_save" -> set_attrReturn(m)
              [] it.k = "send" -> sendResolved(m, v)
              [] it.k = "send_msg_obj" -> sendMsgObj(m, v)
              [] it.k = "send_msg_attr" -> sendMsgAttr(m, v)
              [] it.k = "send_msg" -> sendToHandler(m, it.targetObj, v)
              [] it.k \in {"send_try", "return"} ->
                    Deliver(Observe(Pop(m), OtherCall), v)
              [] it.k = "call_attribute" -> callAttribute(m, v)
              [] it.k = "tick" -> TickLoop(m)
              [] it.k = "bind_actor" -> bindActor(m, v)
              [] it.k = "bind_on_actor" -> bindOnActor(m, v)
              [] it.k = "bind_location" -> bindLocation(m, v)
              [] it.k = "bind_on_location" -> bindOnLocation(m, v)
              [] it.k = "bind_try" -> bindResult(m, v)
              [] OTHER -> Finished(m, v)

\* gStdLib.ts line 113: the awaited saveObject throws and set_attr throws
\* with it; the change made at line 112 is left as it is
set_attrThrow(m, e) ==
    Throw([Pop(m) EXCEPT !.f.failed = @ \cup {[id |-> Top(m).targetObj.id,
                                                name |-> Top(m).attrName,
                                                value |-> Top(m).valueToSet]}],
          e)

\* an exception unwinds the innermost pending call, unless that catches it
Unwind(m, e) ==
    IF m.f.stack = << >>
    THEN [m EXCEPT !.f.pc = "finished", !.f.outcome = e, !.f.result = GNull]
    ELSE IF Top(m).k = "send_try"
    THEN Deliver(Observe(Pop(m), OtherCall), GNull)
    ELSE IF Top(m).k = "tick"
    THEN TickCatch(m, e)
    ELSE IF Top(m).k = "bind_try"
    THEN bindCatch(m, e)
    ELSE IF Top(m).k = "set_attr_save"
    THEN set_attrThrow(m, e)
    ELSE Throw(Pop(m), e)

\* the value or error on its way reaches the innermost pending call
Dispatch(m) ==
    LET m0 == [m EXCEPT !.f.pc = "run", !.f.ret = Undefined]
    IN IF m.f.pc = "deliver" THEN DeliverTo(m0, m.f.ret) ELSE Unwind(m0, m.f.ret)

\* the task runs without interruption until it waits for the store or its
\* top-level call ends; a step of the model follows it through so many
\* returns and throws, and the next step takes it from there
Run(m, fuel) ==
    IF m.f.pc \in {"deliver", "throw"} /\ fuel > 0 THEN Run(Dispatch(m), fuel - 1)
    ELSE m

----------------------------------------------------------------------------
(* The store and the scheduler *)

\* the machine's state r becomes the state of the world
Settle(t, r) ==
    /\ objectCache' = r.cache
    /\ heap' = Collect(r)
    /\ task' = [task EXCEPT ![t] = r.f]

\* the task runs on to its next wait, and the machine's state becomes the
\* state of the world
Commit(t, m) == Settle(t, Run(m, RunSteps))

\* DatabaseManager.getWorldDB().get(id): the store answers a fetch with the
\* document it holds then, or not_found
DbGet(t) ==
    /\ task[t].pc = "get_req"
    /\ task' = [task EXCEPT ![t].pc = "get_resp",
                            ![t].dbResp = IF task[t].fetchId \in DOMAIN worldDb
                                          THEN worldDb[task[t].fetchId]
                                          ELSE NoDoc]
    /\ UNCHANGED <<engine, worldDb, objectCache, heap, started, socket>>

\* DatabaseManager.getWorldDB().insert(doc): the store takes the document if
\* its revision is the one the store holds (none for a new document) and
\* gives it the next revision; otherwise it refuses with a conflict
DbInsert(t) ==
    /\ task[t].pc = "ins_req"
    /\ LET body == task[t].body
           cur == worldDb[body.id]
           ok == IF cur.exists THEN body.rev = cur.rev ELSE body.rev = 0
           rev == IF cur.exists THEN cur.rev + 1 ELSE 1
       IN /\ worldDb' = IF ok
                        THEN [worldDb EXCEPT ![body.id] =
                                 WithLocation([exists |-> TRUE, rev |-> rev,
                                               parentIds |-> body.parentIds,
                                               attributes |-> body.attributes],
                                              body)]
                        ELSE worldDb
          /\ task' = [task EXCEPT ![t].pc = "ins_resp", ![t].body = NoDoc,
                                  ![t].insResp = [ok |-> ok, rev |-> IF ok THEN rev ELSE 0]]
    /\ UNCHANGED <<engine, objectCache, heap, started, socket>>

\* the awaited insert resolves and the task runs on
ResumeInsert(t) ==
    /\ task[t].pc = "ins_resp"
    /\ Commit(t, saveObjectResume(Machine(t)))
    /\ UNCHANGED <<engine, worldDb, started, socket>>

\* the awaited fetch resolves and the task runs on to its next store access
ResumeGet(t) ==
    /\ task[t].pc = "get_resp"
    /\ Commit(t, getObjectByIdResume(Machine(t)))
    /\ UNCHANGED <<engine, worldDb, started, socket>>

\* the task is in the middle of a run: it runs on, and nothing else does
Continue(t) ==
    /\ task[t].pc \in {"deliver", "throw"}
    /\ Commit(t, Machine(t))
    /\ UNCHANGED <<engine, worldDb, started, socket>>

\* the event loop is inside the run of a task
Busy == \E t \in Tasks : task[t].pc \in {"deliver", "throw"}

\* a run that never ends keeps the event loop: no callback is served again
Starved == \E t \in Tasks : task[t].pc = "diverged"

\* the caller has its result
Return(t) ==
    /\ task[t].pc = "finished"
    /\ task' = [task EXCEPT ![t] = IdleFrame]
    /\ UNCHANGED <<engine, worldDb, objectCache, heap, started, socket>>

\* a top-level call starts on an idle task
Begin(t, call) == [Machine(t) EXCEPT !.f.pc = "run", !.f.call = call]

\* a caller asks for an attribute: getAttributeValue(objId, attributeName)
CallGetAttributeValue(t, objId, attributeName) ==
    /\ task[t].pc = "idle"
    /\ Commit(t, getAttributeValue(
                     Begin(t, [op |-> "getAttributeValue", objId |-> objId,
                               attributeName |-> attributeName]),
                     objId, attributeName))
    /\ UNCHANGED <<engine, worldDb, started, socket>>

\* the ids of the cached objects, in the order of the cache
CachedIds(cache) ==
    LET IsIn(i) == IsCached(cache, i)
    IN SelectSeq(IdSeq, IsIn)

\* the Timeout objects setInterval can return; Node never hands out one that
\* is still referred to
Timers == {"timeout1", "timeout2", "timeout3"}
NoTimer == "null"

\* gameEngine/index.ts lines 9-11: tickInterval = null, isRunning = false, and
\* no interval timer is active; 'last' notes the last call made and 'again'
\* that the loop has been started after a shutdown
Stopped ==
    [tickInterval |-> NoTimer, isRunning |-> FALSE, active |-> {}, last |-> "none",
     again |-> FALSE]

\* setInterval(this.tick, TICK_RATE_MS): a new active timer
setInterval(e) == CHOOSE x \in Timers : x \notin e.active \cup {e.tickInterval}

\* clearInterval(x)
clearInterval(e, x) == [e EXCEPT !.active = @ \ {x}]

\* lines 18-27
startGameLoop(e) ==
    IF e.isRunning THEN [e EXCEPT !.last = "start while running"]
    ELSE LET e1 == IF e.tickInterval # NoTimer THEN clearInterval(e, e.tickInterval)
                   ELSE e
         IN [e1 EXCEPT !.tickInterval = setInterval(e), !.active = @ \cup {setInterval(e)},
                       !.isRunning = TRUE, !.last = "start",
                       !.again = @ \/ e.last = "shutdown"]

\* shutdown that leaves the timer as it is
shutdownFlagOnly(e) == [e EXCEPT !.isRunning = FALSE, !.last = "shutdown"]

\* lines 52-59
shutdown(e) ==
    LET e1 == IF e.tickInterval # NoTimer
              THEN [clearInterval(e, e.tickInterval) EXCEPT !.tickInterval = NoTimer]
              ELSE e
    IN [e1 EXCEPT !.isRunning = FALSE, !.last = "shutdown"]

\* the game loop's timer fires: a tick starts on the objects cached now
Tick(t) ==
    /\ task[t].pc = "idle"
    /\ started < MaxCalls
    /\ started' = started + 1
    /\ Commit(t, TickLoop(Push(Begin(t, [op |-> "tick",
                                          allObjects |-> CachedIds(objectCache)]),
                               [k |-> "tick",
                                allObjects |-> getAllCachedObjects(objectCache),
                                idx |-> 1])))
    /\ UNCHANGED <<engine, worldDb, socket>>

\* a caller works through its calls to the cache API
CallClient(t, ops) ==
    /\ task[t].pc = "idle"
    /\ started < MaxCalls
    /\ started' = started + 1
    /\ Commit(t, ClientLoop(Push(Begin(t, [op |-> "client"]),
                                 [k |-> "client", ops |-> ops,
                                  pending |-> [op |-> "none"]])))
    /\ UNCHANGED <<engine, worldDb, socket>>

----------------------------------------------------------------------------
(* Lookups over the worlds a definition file can load *)

\* the sequences over S of length at most n
SeqsUpTo(S, n) == UNION {[1 .. k -> S] : k \in 0 .. n}

OwnString(id) == GString("v" \o SubSeq(id, 2, 2))

\* the parent lists a definition file gives each object: two parents in either
\* order, diamonds, cycles, self-parents and parents that do not exist
ParentChoices(id) ==
    CASE id = "#a" -> SeqsUpTo({"#b", "#c"}, MaxParents)
      [] id = "#b" -> SeqsUpTo({"#d", MissingId}, 1)
      [] id = "#c" -> SeqsUpTo({"#d", "#a"}, 1)
      [] OTHER -> SeqsUpTo({"#d", "#b"}, 1)

\* what a definition file stores under the name on each object: nothing, a
\* string of its own, null, or an object carrying a 'value' field
AttrChoices(id) ==
    LET Holding(v) == [n \in Names |-> v]
    IN CASE id \in {"#a", "#c"} -> {EmptyMap, Holding(OwnString(id))}
         [] id = "#d" -> {EmptyMap, Holding(OwnString(id)), Holding(GWrapped(GString("red")))}
         [] OTHER -> {EmptyMap, Holding(OwnString(id)), Holding(GNull)}

\* one choice for each of the four objects
PerObject(Choices(_)) ==
    {[i \in Ids |-> CASE i = "#a" -> ca [] i = "#b" -> cb [] i = "#c" -> cc
                        [] OTHER -> cd] :
        ca \in Choices("#a"), cb \in Choices("#b"), cc \in Choices("#c"),
        cd \in Choices("#d")}

ParentAssignments == PerObject(ParentChoices)

AttrAssignments == PerObject(AttrChoices)

WorldsAttr ==
    {[i \in Ids |-> [exists |-> TRUE, rev |-> 1, parentIds |-> ps[i],
                     attributes |-> as[i]]] :
        ps \in ParentAssignments, as \in AttrAssignments}

\* the cache holding every document of the store, each with a map of its own
WarmCache(db) ==
    [i \in Ids |-> IF db[i].exists
                   THEN [cached |-> TRUE, rev |-> db[i].rev,
                         parentIds |-> db[i].parentIds,
                         attributes |-> CHOOSE a \in 1 .. Len(IdSeq) : IdSeq[a] = i]
                   ELSE NoObj]

\* the server after start-up on the store db: the documents outside ev are
\* in the cache, nothing is running
Started(db, ev) ==
    /\ worldDb = db
    /\ objectCache = [i \in Ids |-> IF i \in ev THEN NoObj ELSE WarmCache(db)[i]]
    /\ heap = [a \in Addrs |-> IF a <= Len(IdSeq) /\ IdSeq[a] \notin ev
                                   /\ db[IdSeq[a]].exists
                                THEN db[IdSeq[a]].attributes
                                ELSE EmptyMap]
    /\ task = [t \in Tasks |-> IdleFrame]
    /\ started = 0
    /\ socket = [c \in Conns |-> [open |-> FALSE]]
    /\ engine = Stopped

\* the objects not yet loaded into the cache when the lookups start: none, a
\* parent in the middle of a chain, or the last ancestor
EvictedAtStart == {{}, {"#b"}, {"#d"}}

InitAttr == \E db \in WorldsAttr, ev \in EvictedAtStart : Started(db, ev)

\* the lookups are made one at a time
LookupTasks == {"t1"}

NextAttr ==
    \E t \in LookupTasks :
        \/ \E o \in Ids \cup {MissingId}, n \in Names : CallGetAttributeValue(t, o, n)
        \/ DbGet(t)
        \/ ResumeGet(t)
        \/ Return(t)

SpecAttr == InitAttr /\ [][NextAttr]_vars

----------------------------------------------------------------------------
(* What the lookup is specified to return *)

Range(sq) == {sq[k] : k \in 1 .. Len(sq)}

\* the object getObjectById yields for an id: the cached copy, else the store's
View(id) ==
    IF id \in DOMAIN objectCache /\ objectCache[id].cached
    THEN [exists |-> TRUE, parentIds |-> objectCache[id].parentIds,
          attributes |-> heap[objectCache[id].attributes]]
    ELSE IF id \in DOMAIN worldDb /\ worldDb[id].exists
    THEN [exists |-> TRUE, parentIds |-> worldDb[id].parentIds,
          attributes |-> worldDb[id].attributes]
    ELSE [exists |-> FALSE, parentIds |-> << >>, attributes |-> EmptyMap]

RECURSIVE Flatten(_)
Flatten(sqs) == IF sqs = << >> THEN << >> ELSE Head(sqs) \o Flatten(Tail(sqs))

\* a sequence without the elements of seen and without repeats (first kept)
RECURSIVE Dedup(_, _)
Dedup(sq, seen) ==
    IF sq = << >> THEN << >>
    ELSE IF Head(sq) \in seen THEN Dedup(Tail(sq), seen)
    ELSE <<Head(sq)>> \o Dedup(Tail(sq), seen \cup {Head(sq)})

\* left-to-right breadth-first order, level by level: a level, then the parents
\* of its objects in listed order, every id once
RECURSIVE LevelOrder(_, _)
LevelOrder(level, seen) ==
    IF level = << >> THEN << >>
    ELSE LET seen2 == seen \cup Range(level)
             parents == Flatten([k \in 1 .. Len(level) |-> View(level[k]).parentIds])
         IN level \o LevelOrder(Dedup(parents, seen2), seen2)

Defines(id, name) == View(id).exists /\ name \in DOMAIN View(id).attributes

\* the ids in breadth-first order from start whose own map contains the name
Definers(start, name) ==
    LET Has(id) == Defines(id, name)
    IN SelectSeq(LevelOrder(<<start>>, {}), Has)

\* the inheritance closure: start and everything reachable over parentIds
RECURSIVE ClosureFrom(_)
ClosureFrom(S) ==
    LET more == S \cup UNION {Range(View(i).parentIds) : i \in S}
    IN IF more = S THEN S ELSE ClosureFrom(more)

\* a lookup that has returned
LookupDone(t) ==
    /\ task[t].pc = "finished"
    /\ task[t].call.op = "getAttributeValue"

LookupId(t) == task[t].call.objId
LookupName(t) == task[t].call.attributeName

\* C2: getAttributeValue(O, N) returns, unchanged, the value stored on the first
\* object in left-to-right breadth-first order from O whose own attribute map
\* contains N.
C2_RawFirstDefinition ==
    \A t \in Tasks :
        LookupDone(t) /\ Definers(LookupId(t), LookupName(t)) # << >> =>
            task[t].result =
                View(Head(Definers(LookupId(t), LookupName(t))))
                    .attributes[LookupName(t)]

LookupRunning(t) ==
    /\ task[t].call.op = "getAttributeValue"
    /\ task[t].pc # "finished"

\* the store has answered the fetch of t: t can run on
Fetched(t) == task[t].pc = "get_resp"

\* the store answers every request and Node's event loop serves every
\* callback that is ready. Fetched(t) is the condition under which
\* ResumeGet(t) can be taken, so the last conjunct is the weak fairness of
\* that step, written out
SpecAttrLive ==
    /\ SpecAttr
    /\ \A t \in LookupTasks : WF_vars(DbGet(t))
    /\ \A t \in LookupTasks : []<>~Fetched(t) \/ []<><<ResumeGet(t)>>_vars

NoRepeats(sq) == \A j, k \in 1 .. Len(sq) : sq[j] = sq[k] => j = k

\* no id is processed twice, and a lookup that found the name on none of the
\* objects it processed has returned absent
ProcessedOnce ==
    \A t \in Tasks :
        /\ NoRepeats(task[t].processed)
        /\ (LookupDone(t)
              /\ \A k \in 1 .. Len(task[t].processed) :
                     ~Defines(task[t].processed[k], LookupName(t)))
               => task[t].result = Undefined

\* C26: getAttributeValue terminates for every parent graph, with cycles,
\* self-parents, diamonds and parents that are missing: each id is processed
\* at most once, the lookup returns, and it returns absent when none of the
\* objects it visited defines the attribute
C26_LookupTerminates ==
    /\ []ProcessedOnce
    /\ \A t \in LookupTasks : LookupRunning(t) ~> LookupDone(t)

\* a parent list of the store names an object already on the path to it
OnCycle(i) == i \in ClosureFrom(Range(View(i).parentIds))

\* a lookup over a cycle that has a parent naming a missing object has
\* returned absent after it processed every id of the closure once
C26_Witness ==
    \E t \in Tasks :
        /\ LookupDone(t)
        /\ task[t].result = Undefined
        /\ OnCycle(LookupId(t))
        /\ MissingId \in ClosureFrom({LookupId(t)})
        /\ Range(task[t].processed) = ClosureFrom({LookupId(t)})
        /\ Len(task[t].processed) >= 3

----------------------------------------------------------------------------
(* The cache API under concurrent callers *)

Doc(rev, parentIds, attributes) ==
    [exists |-> TRUE, rev |-> rev, parentIds |-> parentIds, attributes |-> attributes]

Holding(n, v) == [x \in {n} |-> v]

\* a small stored world: #a inherits from #b; #c and #d are not stored
WorldCache ==
    [i \in Ids |-> CASE i = "#a" -> Doc(1, <<"#b">>, Holding("color", GString("va")))
                     [] i = "#b" -> Doc(1, << >>, EmptyMap)
                     [] OTHER -> NoDoc]

\* the objects callers save, as a definition file gives them (no revision):
\* an existing one and a new one, with a new attribute map, or with new
\* parents and no attributes field at all; the last makes #b a child of #a
PutData ==
    {[id |-> i, attributes |-> Holding("color", GString(c))] :
        i \in {"#a", "#c"}, c \in {"red", "blue"}}
    \cup {[id |-> i, parentIds |-> << >>] : i \in {"#a", "#c"}}
    \cup {[id |-> "#b", parentIds |-> <<"#a">>]}

\* what one caller does in a row: a save, a read, or a save and then a read
\* of the same id
ClientOps ==
    {<<[op |-> "put", data |-> d]>> : d \in PutData}
    \cup {<<[op |-> "put", data |-> d], [op |-> "get", id |-> d.id]>> : d \in PutData}
    \cup {<<[op |-> "get", id |-> i]>> : i \in {"#a", "#c"}}

InitCache == \E ev \in {{}, {"#a"}} : Started(WorldCache, ev)

NextCache ==
    \E t \in Tasks :
        \/ \E ops \in ClientOps : CallClient(t, ops)
        \/ DbGet(t)
        \/ ResumeGet(t)
        \/ DbInsert(t)
        \/ ResumeInsert(t)
        \/ Return(t)

SpecCache == InitCache /\ [][NextCache]_vars

\* every field the saved object carried is a field of the object read
Carries(data, got) ==
    /\ got.found
    /\ "attributes" \in DOMAIN data => got.attributes = data.attributes
    /\ "parentIds" \in DOMAIN data => got.parentIds = data.parentIds

C18_MintCollisionFails ==
    /\ \A t \in Tasks :
           task[t].obs.op = "put" => ~WorldCache[task[t].obs.id].exists
    /\ \A id \in Ids : WorldCache[id].exists => worldDb[id] = WorldCache[id]

\* the parents the stored object id lists
ParentsOf(id) ==
    IF worldDb[id].exists
    THEN {worldDb[id].parentIds[k] : k \in 1 .. Len(worldDb[id].parentIds)} \cap Ids
    ELSE {}

RECURSIVE AncestorsWithin(_, _)
\* what is reached from the objects of S along at most n more parent links
AncestorsWithin(S, n) ==
    IF n = 0 THEN S
    ELSE AncestorsWithin(S \cup UNION {ParentsOf(id) : id \in S}, n - 1)

AncestorsOf(id) == AncestorsWithin(ParentsOf(id), Cardinality(Ids))

\* C19: after any sequence of writes the parent graph of the stored objects
\* is acyclic: no object is its own ancestor
C19_ParentsAcyclic == \A id \in Ids : id \notin AncestorsOf(id)

\* C20: a save whose insert the store refused for its revision is fetched,
\* merged and inserted once more; the failure reaches the caller only when
\* the second insert has been refused too
C20_ConflictRetriedOnce ==
    \A t \in Tasks : task[t].refused # {} => task[t].conflicts = 2

----------------------------------------------------------------------------
(* G code run by overlapping ticks *)

Attrs2(n1, v1, n2, v2) == [x \in {n1, n2} |-> IF x = n1 THEN v1 ELSE v2]

\* #a (child of #b) and #b each run a script on every tick; #c handles
\* messages; #d stores an object whose 'value' field is itself such an object
WorldTick(sa, sb) ==
    [i \in Ids |->
        CASE i = "#a" -> Doc(1, <<"#b">>, Attrs2("color", GString("va"),
                                                "on_tick", GString(sa)))
          [] i = "#b" -> Doc(1, << >>, Holding("on_tick", GString(sb)))
          [] i = "#c" -> Doc(1, << >>, Holding("on_message", GString(OnMessageScript)))
          [] OTHER -> Doc(1, << >>, Holding("boxed", GWrapped(GWrapped(GString("red")))))]

ScriptsOfA ==
    {SetGetScript(ref) : ref \in RefForms}
    \cup {SetGetHandleScript, SetGetBoxedScript, SendScript}

ScriptsOfB == {SetLastScript, SendScript, SetGetScript("#a")}

InitWorld ==
    \E sa \in ScriptsOfA, sb \in ScriptsOfB : Started(WorldTick(sa, sb), {})

NextWorld ==
    \E t \in Tasks :
        \/ Tick(t)
        \/ DbGet(t)
        \/ ResumeGet(t)
        \/ DbInsert(t)
        \/ ResumeInsert(t)
        \/ Return(t)

SpecWorld == InitWorld /\ [][NextWorld]_vars

\* C4: whenever a set_attr(obj, name, v) that succeeded is followed at once,
\* in the same invocation, by get_attr(obj, name), the read returns v
C4_SetThenGet ==
    \A t \in Tasks : \A p \in task[t].pairs :
        (p.w.op = "set_attr" /\ p.r.name = p.w.name) => p.r.result = p.w.value

\* the task is between the in-place change of set_attr on the object id and
\* the return of the save that follows it
InSetAttr(t, id) ==
    \E k \in 1 .. Len(task[t].stack) :
        /\ task[t].stack[k].k = "set_attr_save"
        /\ task[t].stack[k].targetObj.id = id

Quiet == \A t \in Tasks : task[t].pc \in {"idle", "finished"}

\* C5: the read-modify-write sequences of two invocations' set_attr on one
\* object never overlap, no save of a set_attr is refused, and once nothing
\* is running the cache and the store hold the same attributes for the object
C5_SetAttrSerialized ==
    /\ \A t, u \in Tasks : \A id \in Ids :
           (InSetAttr(t, id) /\ InSetAttr(u, id)) => t = u
    /\ \A t \in Tasks : task[t].refused = {}
    /\ Quiet => \A id \in Ids :
                    IsCached(objectCache, id) =>
                        heap[objectCache[id].attributes] = worldDb[id].attributes

\* the on_message of the object id, begun for a send of this task, has not
\* returned yet
InOnMessage(t, id) ==
    \E k \in 1 .. Len(task[t].stack) :
        /\ task[t].stack[k].k = "send_try"
        /\ task[t].stack[k].targetObj.id = id

\* C6: while the on_message handler of a target runs for one send, no
\* on_message of that target is running for another invocation's send
C6_OnMessageSerialized ==
    \A t, u \in Tasks : \A id \in Ids :
        (InOnMessage(t, id) /\ InOnMessage(u, id)) => t = u

----------------------------------------------------------------------------
(* Telnet clients typing lines *)

\* telnetServer.ts lines 31-35: the session built for every data event; send
\* is bound to the socket of the connection
SessionContext(c) == [sourceType |-> "telnet", conn |-> c]

\* telnetServer.ts lines 16-23: a client connects
Connect(c) ==
    /\ ~socket[c].open
    /\ socket' = [socket EXCEPT ![c].open = TRUE]
    /\ UNCHANGED <<engine, worldDb, objectCache, heap, task, started>>

\* telnetServer.ts lines 41-45: the client ends the connection; nothing else
\* is done
End(c) ==
    /\ socket[c].open
    /\ socket' = [socket EXCEPT ![c].open = FALSE]
    /\ UNCHANGED <<engine, worldDb, objectCache, heap, task, started>>

\* the event loop's calls in flight are told apart by the order of the slots
\* they take: a new one takes the first free slot
TaskBefore(u, t) == u = "t1" /\ t = "t2"

\* telnetServer.ts lines 27-39: data arrives on an open connection; a
\* non-blank message is parsed and bound, and the handler does not wait for it
Data(t, c, data) ==
    /\ socket[c].open
    /\ task[t].pc = "idle"
    /\ \A u \in Tasks : task[u].pc = "idle" => ~TaskBefore(u, t)
    /\ started < MaxCalls
    /\ started' = started + 1
    /\ LET message == trim(data)
       IN IF message # ""
          THEN Commit(t, InputParserParse(
                             Begin(t, [op |-> "line", session |-> SessionContext(c),
                                       message |-> message, actor |-> "",
                                       searched |-> "", handler |-> ""]),
                             message))
          ELSE UNCHANGED <<engine, objectCache, heap, task>>
    /\ UNCHANGED <<engine, worldDb, socket>>

\* what clients type
Lines == {"look", "LOOK  north", "/who", "  "}

COMMANDS_ID == "#commands"

InputIdSeq == <<PLAYER_PROTOTYPE_ID, "#room", BASE_OBJECT_ID, COMMANDS_ID>>
InputIds == {InputIdSeq[k] : k \in 1 .. Len(InputIdSeq)}

\* how an object may define cmd_look: not at all, as G code, or as null
CmdChoices == {"none", "code", "null"}

CmdAttrs(color, cmd) ==
    CASE cmd = "none" -> Holding("color", GString(color))
      [] cmd = "code" -> Attrs2("color", GString(color),
                                "cmd_look", GString(LookScript))
      [] OTHER -> Attrs2("color", GString(color), "cmd_look", GNull)

\* where the placeholder actor may be: nowhere (no locationId), in the room,
\* or in a place that does not exist
LocationChoices == {"", "#room", MissingId}

\* a stored world: the base object, the room, a global command object that
\* defines cmd_look, and (if pp) the placeholder actor, a child of the base
\* object
WorldInput(pp, own, inh, loc, roomCmd) ==
    [i \in InputIds |->
        CASE i = BASE_OBJECT_ID -> Doc(1, << >>, CmdAttrs("vo", inh))
          [] i = COMMANDS_ID -> Doc(1, << >>, CmdAttrs("vg", "code"))
          [] i = "#room" -> Doc(1, << >>, CmdAttrs("vr", roomCmd))
          [] OTHER -> IF ~pp THEN NoDoc
                      ELSE IF loc = ""
                      THEN Doc(1, <<BASE_OBJECT_ID>>, CmdAttrs("vp", own))
                      ELSE Doc(1, <<BASE_OBJECT_ID>>, CmdAttrs("vp", own))
                               @@ [locationId |-> loc]]

WorldsInput ==
    {WorldInput(TRUE, own, inh, loc, roomCmd) :
        own \in CmdChoices, inh \in {"none", "code"},
        loc \in LocationChoices, roomCmd \in {"none", "code"}}
    \cup {WorldInput(FALSE, "none", "code", "", "code")}

\* the server after start-up on db, with the documents outside ev cached
StartedInput(db, ev) ==
    LET AddrOf(i) == CHOOSE a \in 1 .. Len(InputIdSeq) : InputIdSeq[a] = i
        In(i) == i \notin ev /\ db[i].exists
    IN /\ worldDb = db
       /\ objectCache =
              [i \in InputIds |->
                  IF In(i)
                  THEN WithLocation([cached |-> TRUE, rev |-> db[i].rev,
                                     parentIds |-> db[i].parentIds,
                                     attributes |-> AddrOf(i)], db[i])
                  ELSE NoObj]
       /\ heap = [a \in Addrs |-> IF a <= Len(InputIdSeq) /\ In(InputIdSeq[a])
                                  THEN db[InputIdSeq[a]].attributes
                                  ELSE EmptyMap]
       /\ task = [t \in Tasks |-> IdleFrame]
       /\ started = 0
       /\ socket = [c \in Conns |-> [open |-> FALSE]]
       /\ engine = Stopped

InitInput ==
    \E db \in WorldsInput, ev \in {{}, {"#room"}, {PLAYER_PROTOTYPE_ID}} :
        StartedInput(db, ev)

NextInput ==
    \/ \E c \in Conns : Connect(c) \/ End(c)
    \/ \E t \in Tasks :
        \/ \E c \in Conns, data \in Lines : Data(t, c, data)
        \/ DbGet(t)
        \/ ResumeGet(t)
        \/ Return(t)

SpecInput == InitInput /\ [][NextInput]_vars

\* a line has been parsed and is being bound, or has been
IsLine(t) == task[t].call.op = "line"

LineDone(t) == IsLine(t) /\ task[t].pc = "finished"

\* the line's command is executing under an actor
Executing(t) ==
    /\ IsLine(t)
    /\ task[t].pc \notin {"idle", "finished"}
    /\ task[t].call.actor # ""

\* C7: a character is the actor under which the commands of at most one live
\* session execute: two open connections never have commands executing under
\* the same actor object
C7_OneSessionPerCharacter ==
    \A t \in Tasks : \A u \in Tasks \ {t} :
        ( /\ Executing(t) /\ Executing(u)
          /\ task[t].call.session.conn # task[u].call.session.conn
          /\ socket[task[t].call.session.conn].open
          /\ socket[task[u].call.session.conn].open )
        => task[t].call.actor # task[u].call.actor

\* the two booleans of the session state; a session that does not carry one
\* has it false
SessionFlag(session, flag) == flag \in DOMAIN session /\ session[flag]

\* the recognizers tried for a session, in order
RecognizerStack(session) ==
    (IF SessionFlag(session, "admin") THEN <<"Admin">> ELSE << >>)
    \o <<"User">>
    \o (IF SessionFlag(session, "embodied") THEN <<"Game">> ELSE << >>)

\* the line was handed to the Game mode binding: a cmd_<verb> attribute was
\* searched for
ReachedGame(t) == task[t].call.searched # ""

\* C8: the recognizers tried on a line are those of the stack of its session,
\* so a line from a session whose stack has no Game recognizer (one that is
\* not embodied) is never bound to a cmd_<verb> attribute
C8_UnembodiedNeverGame ==
    \A t \in Tasks :
        (IsLine(t) /\ "Game" \notin Range(RecognizerStack(task[t].call.session)))
        => ~ReachedGame(t)

UserKeywords == {"who", "quit", "connect", "commands"}

\* whether the recognizer r accepts the line, for the Admin recognizer (the
\* line begins with /) and the User recognizer (the first term is a keyword)
Recognizes(r, line) ==
    CASE r = "Admin" -> StartsWith(line, "/")
      [] r = "User" -> toLowerCase(split(line)[1]) \in UserKeywords
      [] OTHER -> FALSE

\* the recognizers of the session's stack before Game
BeforeGame(session) ==
    LET NotGame(r) == r # "Game" IN SelectSeq(RecognizerStack(session), NotGame)

IsDefaultResponse(msg) ==
    Len(msg) >= 18 /\ SubSeq(msg, 1, 18) = "I don't understand"

\* C9: the first recognizer of the session's stack that accepts the line wins
\* and no later one is consulted: a line accepted by a recognizer before Game
\* never reaches Game; a line they decline reaches Game if Game is in the
\* stack; and a line no recognizer of the stack accepts gets the default
\* "I don't understand" response and nothing runs for it
C9_FirstRecognizerWins ==
    \A t \in Tasks :
        LineDone(t) =>
            LET session == task[t].call.session
                line == task[t].call.message
                early == \E k \in 1 .. Len(BeforeGame(session)) :
                             Recognizes(BeforeGame(session)[k], line)
                hasGame == "Game" \in Range(RecognizerStack(session))
            IN /\ early => ~ReachedGame(t)
               /\ (~early /\ hasGame) => ReachedGame(t)
               /\ (~early /\ ~hasGame) =>
                      /\ task[t].call.handler = ""
                      /\ Len(task[t].sent) = 1
                      /\ IsDefaultResponse(task[t].sent[1])

----------------------------------------------------------------------------
(* Where the binder finds the handler *)

\* cmd_<verb> is found from the object id: some object of its inheritance
\* search has the attribute in its own map
Resolves(id, name) == Definers(id, name) # << >>

\* the locationId of a stored object, "" if it has none
LocationIdOf(id) ==
    IF id \in DOMAIN worldDb /\ worldDb[id].exists /\ "locationId" \in DOMAIN worldDb[id]
    THEN worldDb[id].locationId
    ELSE ""

\* the object's own attribute of that name is G code
OwnCode(id, name) ==
    /\ View(id).exists
    /\ name \in DOMAIN View(id).attributes
    /\ IsString(View(id).attributes[name])

\* the first of the actor and, if the actor has one that exists, its
\* location, from which the attribute is found; "" if it is found from neither
ActorThenLocation(actor, name) ==
    LET loc == LocationIdOf(actor)
    IN IF Resolves(actor, name) THEN actor
       ELSE IF loc # "" /\ View(loc).exists /\ Resolves(loc, name) THEN loc
       ELSE ""

\* the first of the actor's location, the actor and #commands from which the
\* attribute is found
LocationThenActor(actor, name) ==
    LET loc == LocationIdOf(actor)
    IN IF loc # "" /\ View(loc).exists /\ Resolves(loc, name) THEN loc
       ELSE IF Resolves(actor, name) THEN actor
       ELSE IF Resolves(COMMANDS_ID, name) THEN COMMANDS_ID
       ELSE ""

\* no G function ran for the task
NothingRan(t) == task[t].obs.op = "none"

----------------------------------------------------------------------------
(* SpecGame: clients type commands whose handlers are G scripts of the room *)
(* the actor is in.                                                         *)

RoomDescription == "A quiet room."

\* the scripts the room may hold as cmd_look
LookScripts == {DescribeScript, DescribeQuotedScript}

\* the attributes of the room
RoomAttrs(look) ==
    [n \in {"description", "cmd_look", "cmd_iftrue", "cmd_iffalse",
            "cmd_texttrue", "cmd_textfalse", "cmd_sum", "cmd_sumlater",
            "cmd_loop"} |->
        CASE n = "description" -> GString(RoomDescription)
          [] n = "cmd_look" -> GString(look)
          [] n = "cmd_iftrue" -> GString(IfScript("true"))
          [] n = "cmd_iffalse" -> GString(IfScript("false"))
          [] n = "cmd_texttrue" -> GString(IfTextScript("true"))
          [] n = "cmd_textfalse" -> GString(IfTextScript("false"))
          [] n = "cmd_sum" -> GString(SumScript)
          [] n = "cmd_sumlater" -> GString(SumLaterScript)
          [] n = "cmd_loop" -> GString(LoopScript)]

\* the attributes of the actor: it defines no command; it may handle messages
ActorAttrs(onMessage) ==
    IF onMessage = "" THEN Holding("color", GString("vp"))
    ELSE Attrs2("color", GString("vp"), "on_message", GString(onMessage))

\* a stored world: the actor #player_prototype is in #room
WorldGame(look, onMessage) ==
    [i \in InputIds |->
        CASE i = BASE_OBJECT_ID -> Doc(1, << >>, Holding("color", GString("vo")))
          [] i = COMMANDS_ID -> Doc(1, << >>, Holding("color", GString("vg")))
          [] i = "#room" -> Doc(1, << >>, RoomAttrs(look))
          [] OTHER -> Doc(1, <<BASE_OBJECT_ID>>, ActorAttrs(onMessage))
                          @@ [locationId |-> "#room"]]

WorldsGame ==
    {WorldGame(look, onMessage) : look \in LookScripts, onMessage \in {"", LogScript}}

\* what clients type
GameLines ==
    {"look", "iftrue", "iffalse", "texttrue", "textfalse", "sum", "sumlater", "loop"}

InitGame == \E db \in WorldsGame, ev \in {{}, {"#room"}} : StartedInput(db, ev)

NextGame ==
    \/ \E c \in Conns : Connect(c) \/ End(c)
    \/ \E t \in Tasks :
        \/ \E c \in Conns, data \in GameLines : Data(t, c, data)
        \/ DbGet(t)
        \/ ResumeGet(t)
        \/ Return(t)

SpecGame == InitGame /\ [][NextGame]_vars

\* the line's verb
VerbOf(t) == toLowerCase(split(task[t].call.message)[1])

\* C11: the actor is in a room, the actor has no cmd_look, the room's cmd_look
\* is [send @actor [get_attr @executor "description"]] and the room's
\* description is "A quiet room.": when the line look has been handled the
\* actor's session has received exactly one message, "A quiet room."
C11_LookShowsDescription ==
    \A t \in Tasks :
        (/\ LineDone(t)
         /\ VerbOf(t) = "look"
         /\ worldDb["#room"].attributes["cmd_look"] = GString(DescribeScript))
        => task[t].sent = <<RoomDescription>>

\* message was logged while the line of t was handled
HasLogged(t, message) ==
    \E k \in 1 .. Len(task[t].logged) : task[t].logged[k] = message

\* C12: if evaluates only the taken branch: when [if c T E] has been run with
\* c true, none of E's effects (its log) has occurred, and with c false none
\* of T's
C12_OnlyTakenBranch ==
    \A t \in Tasks :
        LineDone(t) =>
            /\ VerbOf(t) \in {"iftrue", "texttrue"} => ~HasLogged(t, "else")
            /\ VerbOf(t) \in {"iffalse", "textfalse"} => ~HasLogged(t, "then")

\* sub occurs in str
Contains(str, sub) ==
    \E k \in 1 .. Len(str) - Len(sub) + 1 : SubSeq(str, k, k + Len(sub) - 1) = sub

\* C15: when evaluation reaches a call whose head does not resolve, also in a
\* nested argument position as in [+ 1 [unknown]], the invocation is aborted
\* (no later command of it runs) and the actor's session receives exactly
\* one diagnostic, which names the callee and quotes the failing expression
C15_UnresolvedCallee ==
    \A t \in Tasks :
        (LineDone(t) /\ VerbOf(t) \in {"sum", "sumlater"}) =>
            /\ Len(task[t].sent) = 1
            /\ Contains(task[t].sent[1], "unknown")
            /\ Contains(task[t].sent[1], "[unknown]")
            /\ ~HasLogged(t, "after")

----------------------------------------------------------------------------
(* SpecDepth: commands whose scripts call themselves, through the run       *)
(* attribute of the room and through the messages the actor sends itself    *)

\* the attributes of the room: cmd_recurse and run call run; cmd_ping sends
\* the actor a message
DeepRoomAttrs ==
    [n \in {"run", "cmd_recurse", "cmd_ping"} |->
        IF n = "cmd_ping" THEN GString(PingScript) ELSE GString(RecurseScript)]

WorldDepth(onMessage) ==
    [i \in InputIds |->
        CASE i = BASE_OBJECT_ID -> Doc(1, << >>, Holding("color", GString("vo")))
          [] i = COMMANDS_ID -> Doc(1, << >>, Holding("color", GString("vg")))
          [] i = "#room" -> Doc(1, << >>, DeepRoomAttrs)
          [] OTHER -> Doc(1, <<BASE_OBJECT_ID>>, ActorAttrs(onMessage))
                          @@ [locationId |-> "#room"]]

DepthLines == {"recurse", "ping"}

InitDepth ==
    \E onMessage \in {LogScript, EchoScript}, ev \in {{}, {"#room"}} :
        StartedInput(WorldDepth(onMessage), ev)

\* the event loop is free to serve a callback
Free == ~Busy /\ ~Starved

\* the callbacks of a task's store accesses and of its end
ServeTask(t) == Free /\ (DbGet(t) \/ ResumeGet(t) \/ Return(t))

NextDepth ==
    \/ \E t \in Tasks : Continue(t)
    \/ \E c \in Conns : Free /\ (Connect(c) \/ End(c))
    \/ \E t \in Tasks :
        \/ \E c \in Conns, data \in DepthLines : Free /\ Data(t, c, data)
        \/ ServeTask(t)

SpecDepth == InitDepth /\ [][NextDepth]_vars

\* the line of t ended in the depth-limit failure
DepthFailure(t) == LineDone(t) /\ task[t].sent = <<MaxCallDepthExceeded>>

\* C13: along any chain of nested invocations no frame deeper than the limit
\* of 128 frames starts to execute, and the depth-limit failure is raised
\* when the nesting reaches 128 frames
C13_DepthLimit ==
    \A t \in Tasks :
        /\ task[t].deepest <= 128
        /\ DepthFailure(t) => task[t].deepest = 128

\* the actor of t's line handles a message by sending itself another
SendsToItself(t) ==
    /\ IsLine(t)
    /\ task[t].call.actor # ""
    /\ worldDb[task[t].call.actor].attributes["on_message"] = GString(EchoScript)

\* C25: the depth counter is carried through send's delivery to on_message:
\* a handler that sends to its own object never has more executions nested
\* than the depth limit allows
C25_DepthCarriedThroughSend ==
    \A t \in Tasks : SendsToItself(t) => task[t].deepest <= MAX_CALL_DEPTH

\* the store has answered the fetch of t and the event loop is free: t can
\* run on
Resumable(t) == Free /\ task[t].pc = "get_resp"

\* Node's event loop serves every callback that is ready, and a run in
\* progress goes on: a step of a task that can be taken is taken in the end.
\* Resumable(t) is the condition under which ResumeGet(t) can be taken and
\* Busy the one under which Continue can, so the last two conjuncts are the
\* weak fairness of these steps, written out
SpecDepthLive ==
    /\ SpecDepth
    /\ \A t \in Tasks : WF_vars(Free /\ (DbGet(t) \/ Return(t)))
    /\ \A t \in Tasks : []<>~Resumable(t) \/ []<><<Free /\ ResumeGet(t)>>_vars
    /\ ([]<>~Busy \/ []<><<\E t \in Tasks : Continue(t)>>_vars)

\* the line of t is being handled
LineRunning(t) == IsLine(t) /\ task[t].pc # "finished"

\* C14: a top-level invocation of G code started from a cmd_* attribute, G
\* code that does not terminate included, comes to an end (by the timeout
\* failure when its budget has expired)
C14_InvocationEnds == \A t \in Tasks : LineRunning(t) ~> LineDone(t)

----------------------------------------------------------------------------
(* SpecTick: the game loop's ticks over a world of objects with and without  *)
(* an on_tick of their own                                                   *)

\* the on_tick scripts of #a: one that runs through, two that fail
TickScriptsOfA == {LogScript, SumLaterScript, LoopScript}

\* the on_tick scripts of #b: it runs through, changes #a or loads #d
TickScriptsOfB == {LogScript, SetLastScript, TouchScript}

\* #a (child of #b), #b and #d have an on_tick of their own; #c (child of #b)
\* has none and inherits that of #b
WorldOfTicks(sa, sb) ==
    [i \in Ids |->
        CASE i = "#a" -> Doc(1, <<"#b">>, Holding("on_tick", GString(sa)))
          [] i = "#b" -> Doc(1, << >>, Holding("on_tick", GString(sb)))
          [] i = "#c" -> Doc(1, <<"#b">>, Holding("color", GString("vc")))
          [] OTHER -> Doc(1, << >>, Attrs2("color", GString("vd"),
                                           "on_tick", GString(LogScript)))]

\* #d may not have been loaded into the cache yet
InitTick ==
    \E sa \in TickScriptsOfA, sb \in TickScriptsOfB, ev \in SUBSET {"#d"} :
        Started(WorldOfTicks(sa, sb), ev)

NextTick ==
    \E t \in Tasks :
        \/ Tick(t)
        \/ DbGet(t)
        \/ ResumeGet(t)
        \/ DbInsert(t)
        \/ ResumeInsert(t)
        \/ Return(t)

SpecTick == InitTick /\ [][NextTick]_vars

TickDone(t) == task[t].call.op = "tick" /\ task[t].pc = "finished"

\* how often the on_tick of the object id was run by the tick of task t
TimesTicked(t, id) ==
    Cardinality({k \in 1 .. Len(task[t].ticked) : task[t].ticked[k] = id})

OwnsOnTick(id) == worldDb[id].exists /\ "on_tick" \in DOMAIN worldDb[id].attributes

\* C16: a tick runs on_tick exactly once for every object of the world whose
\* own attribute map contains on_tick, and never for an object that only
\* inherits it
C16_TickRunsOwners ==
    \A t \in Tasks : \A id \in Ids :
        /\ (TickDone(t) /\ OwnsOnTick(id)) => TimesTicked(t, id) = 1
        /\ ~OwnsOnTick(id) => TimesTicked(t, id) = 0

\* the objects the tick of task t found in the cache with an on_tick of their
\* own
Scheduled(t) ==
    LET Owns(id) == OwnsOnTick(id)
    IN SelectSeq(task[t].call.allObjects, Owns)

FailsOnTick(id) ==
    worldDb[id].attributes["on_tick"] \in {GString(SumLaterScript), GString(LoopScript)}

HasError(t, id) ==
    \E k \in 1 .. Len(task[t].errors) : task[t].errors[k].id = id

\* C17: when the on_tick of one object fails during a tick, the failure is
\* written to the error log, the on_tick of every other scheduled object is
\* still run in that tick, and the tick itself ends without an error, so
\* that the timer's later ticks fire
C17_TickSurvivesFailure ==
    \A t \in Tasks :
        TickDone(t) =>
            /\ task[t].outcome = "returned"
            /\ task[t].ticked = Scheduled(t)
            /\ \A id \in Ids :
                   (OwnsOnTick(id) /\ FailsOnTick(id) /\ TimesTicked(t, id) = 1)
                       => HasError(t, id)

\* a tick in which the on_tick of #a failed has run #b and #d after it, and a
\* later tick has run all three again
C17_Witness ==
    /\ \A t \in Tasks :
           /\ TickDone(t)
           /\ task[t].ticked = <<"#a", "#b", "#d">>
           /\ HasError(t, "#a")
    /\ started = 2

\* the tick of task t has on_tick invocations in flight: it waits for the
\* store inside the on_tick of an object
InFlight(t) == task[t].call.op = "tick" /\ task[t].pc \notin {"idle", "finished"}

\* the on_tick of the object id is running for the tick of task t
RunningOnTick(t, id) ==
    /\ InFlight(t)
    /\ task[t].ticked # << >>
    /\ task[t].ticked[Len(task[t].ticked)] = id

\* C28: tick executions do not overlap: no tick has its sweep in flight while
\* another tick's is, and no object's on_tick is running twice at a time
C28_TicksDoNotOverlap ==
    /\ \A t, u \in Tasks : (InFlight(t) /\ InFlight(u)) => t = u
    /\ \A t, u \in Tasks : \A id \in Ids :
           (RunningOnTick(t, id) /\ RunningOnTick(u, id)) => t = u

----------------------------------------------------------------------------
(* SpecCrash: the process dies while or after ticks change an attribute, and *)
(* is started again                                                          *)

\* the value of the color of #a in the store before any tick
PreMutation == GString("va")

\* #b changes the color of #a on every tick
WorldCrash ==
    [i \in Ids |->
        CASE i = "#a" -> Doc(1, <<"#b">>, Holding("color", PreMutation))
          [] i = "#b" -> Doc(1, << >>, Holding("on_tick", GString(SetColorScript)))
          [] OTHER -> NoDoc]

InitCrash == \E ev \in {{}, {"#a"}} : Started(WorldCrash, ev)

Crashed == \E t \in Tasks : task[t].restart.crashed

\* the process dies and is started again: the cache, the attribute maps and
\* every invocation in flight are gone, the store is what it was; the
\* set_attr calls that had returned true are remembered for the record.  The
\* game loop is not running after a start (gameEngine/index.ts line 15)
Crash ==
    /\ ~Crashed
    /\ objectCache' = [i \in Ids |-> NoObj]
    /\ heap' = [a \in Addrs |-> EmptyMap]
    /\ task' = [t \in Tasks |->
                   [IdleFrame EXCEPT
                       !.restart = [crashed |-> TRUE,
                                    returned |-> {task[u].obs : u \in
                                                     {x \in Tasks :
                                                         task[x].obs.op = "set_attr"}}]]]
    /\ UNCHANGED <<engine, worldDb, started, socket>>

NextCrash ==
    \/ Crash
    \/ \E t \in Tasks :
        \/ ~Crashed /\ Tick(t)
        \/ Crashed /\ CallGetAttributeValue(t, "#a", "color")
        \/ DbGet(t)
        \/ ResumeGet(t)
        \/ DbInsert(t)
        \/ ResumeInsert(t)

SpecCrash == InitCrash /\ [][NextCrash]_vars

\* a read of the color of #a, made after the restart, has returned
ReadAfterRestart(t) ==
    /\ task[t].restart.crashed
    /\ task[t].call.op = "getAttributeValue"
    /\ task[t].pc = "finished"

\* C21: when set_attr has changed an attribute of #x and the process crashes
\* before a write-back, get_attr on #x after the restart returns the value
\* from before the change
C21_CrashLosesMutation ==
    \A t \in Tasks :
        (ReadAfterRestart(t) /\ task[t].restart.returned # {})
            => task[t].result = PreMutation

----------------------------------------------------------------------------
(* SpecParse: callers parse list texts with spaces and commas as separators *)

\* what a list text has between two elements
Separators == {" ", ",", ", ", " , ", ",,", ",,,"}

\* what it may have after '[' and before ']'
Margins == {"", " "}

\* the texts [a b c] with every choice of separators and margins
ListTexts ==
    {"[" \o lead \o "a" \o s1 \o "b" \o s2 \o "c" \o trail \o "]" :
        lead \in Margins, s1 \in Separators, s2 \in Separators, trail \in Margins}

\* [a,b,"",c]
EmptyStringText == "[a,b," \o Quote("") \o ",c]"

\* GEngine.parse(gCode) is called and returns the commands or throws
ParseCall(t, gCode) ==
    /\ task[t].pc = "idle"
    /\ task' = [task EXCEPT ![t] =
                   [IdleFrame EXCEPT !.pc = "finished",
                                     !.call = [op |-> "parse", gCode |-> gCode],
                                     !.outcome = IF GEngineParse(gCode).ok
                                                 THEN "returned"
                                                 ELSE GEngineParse(gCode).error,
                                     !.result = IF GEngineParse(gCode).ok
                                                THEN GEngineParse(gCode).commands
                                                ELSE GNull]]
    /\ UNCHANGED <<engine, worldDb, objectCache, heap, started, socket>>

InitParse == Started(WorldCache, {})

NextParse ==
    \E t \in Tasks :
        \/ \E gCode \in ListTexts \cup {EmptyStringText} : ParseCall(t, gCode)
        \/ Return(t)

SpecParse == InitParse /\ [][NextParse]_vars

ParseDone(t) == task[t].call.op = "parse" /\ task[t].pc = "finished"

\* C22: commas separate like spaces: every text of [a b c], whatever runs of
\* commas and spaces stand between its elements, parses to the one command
\* with head a and arguments b, c, and [a,b,"",c] parses to head a with the
\* arguments b, the empty string, c
C22_CommasLikeSpaces ==
    \A t \in Tasks :
        /\ (ParseDone(t) /\ task[t].call.gCode \in ListTexts) =>
               /\ task[t].outcome = "returned"
               /\ task[t].result = <<Cmd(GString("a"), <<GString("b"), GString("c")>>)>>
        /\ (ParseDone(t) /\ task[t].call.gCode = EmptyStringText) =>
               /\ task[t].outcome = "returned"
               /\ task[t].result =
                      <<Cmd(GString("a"), <<GString("b"), GString(""), GString("c")>>)>>

----------------------------------------------------------------------------
(* SpecInherit: a line makes the room send the actor a message; the actor    *)
(* handles messages itself or inherits the handler of #object                *)

\* the attributes of the room: cmd_ping and cmd_hi send the actor a message
PingRoomAttrs == Attrs2("cmd_ping", GString(PingScript), "cmd_hi", GString(HiScript))

\* what clients type
InheritLines == {"ping", "hi", "hi there"}

\* a stored world: #object handles messages; the actor #player_prototype, a
\* child of #object in #room, has the handler own of its own, or none
WorldInherit(own) ==
    [i \in InputIds |->
        CASE i = BASE_OBJECT_ID -> Doc(1, << >>, Holding("on_message", GString(LogScript)))
          [] i = COMMANDS_ID -> Doc(1, << >>, Holding("color", GString("vg")))
          [] i = "#room" -> Doc(1, << >>, PingRoomAttrs)
          [] OTHER -> Doc(1, <<BASE_OBJECT_ID>>, ActorAttrs(own))
                          @@ [locationId |-> "#room"]]

InitInherit ==
    \E own \in {"", LogScript}, ev \in {{}, {"#room"}, {BASE_OBJECT_ID}} :
        StartedInput(WorldInherit(own), ev)

NextInherit ==
    \/ \E c \in Conns : Connect(c) \/ End(c)
    \/ \E t \in Tasks :
        \/ \E c \in Conns, data \in InheritLines : Data(t, c, data)
        \/ DbGet(t)
        \/ ResumeGet(t)
        \/ Return(t)

SpecInherit == InitInherit /\ [][NextInherit]_vars

\* the line of t ran cmd_ping and with it the send to the actor
PingSent(t) ==
    /\ LineDone(t)
    /\ task[t].call.message = "ping"
    /\ task[t].call.handler # ""
    /\ Len(task[t].logged) >= 1

\* the actor of t's line has no on_message in its own attribute map
InheritsHandler(t) ==
    "on_message" \notin DOMAIN worldDb[task[t].call.actor].attributes

\* C23: a send to a target that has no on_message of its own but inherits one
\* from #object runs the inherited handler: after the line, the handler's log
\* entry follows the sending script's
C23_InheritedHandlerRuns ==
    \A t \in Tasks : (PingSent(t) /\ InheritsHandler(t)) => Len(task[t].logged) = 2

\* the line of t ran cmd_hi, whose body is [send #player_prototype "hi"]
HiRan(t) ==
    /\ LineDone(t)
    /\ task[t].call.message \in {"hi", "hi there"}
    /\ task[t].call.handler # ""

\* C24: the first command of an attribute's source is called with its own
\* written arguments whatever arguments the attribute was invoked with: the
\* body [send #player_prototype "hi"] sends, so the actor's own handler
\* [log "m"] runs, and the handler's log is called with "m"
C24_FirstCommandOwnArgs ==
    \A t \in Tasks : (HiRan(t) /\ ~InheritsHandler(t)) => task[t].logged = <<"m">>

----------------------------------------------------------------------------
(* SpecFault: ticks whose set_attr is saved to a store that may fail to     *)
(* answer a fetch or to take an insert                                       *)

\* DatabaseManager.getWorldDB().get(id) rejects with an error that is not
\* not_found: getObjectById logs it and returns null (index.ts lines 36-43),
\* as it does for a document the store does not hold
DbGetError(t) ==
    /\ task[t].pc = "get_req"
    /\ task' = [task EXCEPT ![t].pc = "get_resp", ![t].dbResp = NoDoc]
    /\ UNCHANGED <<engine, worldDb, objectCache, heap, started, socket>>

\* DatabaseManager.getWorldDB().insert(doc) fails with a store error: the
\* document is not stored and saveObject throws (index.ts lines 82-85)
DbInsertError(t) ==
    /\ task[t].pc = "ins_req"
    /\ task' = [task EXCEPT ![t].pc = "ins_resp", ![t].body = NoDoc,
                            ![t].insResp = [ok |-> FALSE, rev |-> 0]]
    /\ UNCHANGED <<engine, worldDb, objectCache, heap, started, socket>>

\* on every tick #a sets its color and #b sets the attribute last of #a
InitFault ==
    \E ev \in {{}, {"#d"}} : Started(WorldTick(SetGetScript("#a"), SetLastScript), ev)

NextFault ==
    \E t \in Tasks :
        \/ Tick(t)
        \/ DbGet(t)
        \/ DbGetError(t)
        \/ ResumeGet(t)
        \/ DbInsert(t)
        \/ DbInsertError(t)
        \/ ResumeInsert(t)
        \/ Return(t)

SpecFault == InitFault /\ [][NextFault]_vars

\* the store holds the value for the attribute of the object
Persisted(e) ==
    /\ e.name \in DOMAIN worldDb[e.id].attributes
    /\ worldDb[e.id].attributes[e.name] = e.value

\* a get_attr of the attribute on the object would return the value now
Visible(e) == Defines(e.id, e.name) /\ View(e.id).attributes[e.name] = e.value

\* C27: when a set_attr failed because the save's fetch or insert failed, the
\* change is not visible afterwards: a get_attr returns the value only if the
\* store holds it, and once nothing is running the cached copy of the object
\* holds the attributes the store holds
C27_FailedSetAttrInvisible ==
    \A t \in Tasks : \A e \in task[t].failed :
        /\ Visible(e) => Persisted(e)
        /\ (Quiet /\ IsCached(objectCache, e.id)) =>
               heap[objectCache[e.id].attributes] = worldDb[e.id].attributes

----------------------------------------------------------------------------
(* SpecLoop: the game loop is started and shut down in any order while its   *)
(* timers fire ticks                                                         *)

StartGameLoop ==
    /\ engine' = startGameLoop(engine)
    /\ UNCHANGED <<worldDb, objectCache, heap, task, started, socket>>

Shutdown ==
    /\ engine' = shutdown(engine)
    /\ UNCHANGED <<worldDb, objectCache, heap, task, started, socket>>

\* an active interval timer fires: Node calls tick
TimerFires(t) == engine.active # {} /\ Tick(t)

InitLoop ==
    \E sa \in TickScriptsOfA, sb \in {LogScript, TouchScript}, ev \in SUBSET {"#d"} :
        Started(WorldOfTicks(sa, sb), ev)

NextLoop ==
    \/ StartGameLoop
    \/ Shutdown
    \/ \E t \in Tasks :
        \/ TimerFires(t)
        \/ DbGet(t)
        \/ ResumeGet(t)
        \/ Return(t)

SpecLoop == InitLoop /\ [][NextLoop]_vars

\* at most one timer is active, it is the one tickInterval holds, and isRunning
\* is true exactly when a timer is active
OneTimer ==
    /\ Cardinality(engine.active) <= 1
    /\ engine.isRunning <=> engine.active # {}
    /\ engine.active = {engine.tickInterval} \ {NoTimer}

\* the fields of GameEngine and Node's timers stay as they are
EngineKept ==
    /\ engine'.tickInterval = engine.tickInterval
    /\ engine'.isRunning = engine.isRunning
    /\ engine'.active = engine.active

\* a tick starts its sweep
TickFires == \E t \in Tasks : task[t].pc = "idle" /\ task'[t].call.op = "tick"

\* C29: after any sequence of startGameLoop and shutdown calls at most one
\* tick timer is active and isRunning is true exactly when one is;
\* startGameLoop while running changes nothing; and no tick fires between a
\* shutdown and the next startGameLoop
C29_OneTimer ==
    /\ []OneTimer
    /\ [][engine'.last = "start while running" => EngineKept]_vars
    /\ [][TickFires => engine.isRunning]_vars

\* the loop was shut down and started again, it was then asked to start while
\* running, and a tick has run to its end
C29_Witness ==
    /\ engine.isRunning
    /\ engine.again
    /\ engine.last = "start while running"
    /\ \E t \in Tasks : TickDone(t)

----------------------------------------------------------------------------
(* SpecLogin: clients type connect lines; the accounts store holds bob,     *)
(* created with the password secret, and ann, whose document has no hash     *)

\* accounts/index.ts line 30: createAccount stores hashed_<password>
HashOf(passwordPlainText) == "hashed_" \o passwordPlainText

\* the documents of the accounts store, by login id
AccountsDb ==
    [l \in {"bob", "ann"} |->
        IF l = "bob" THEN [loginId |-> l, hashedPassword |-> HashOf("secret")]
        ELSE [loginId |-> l, hashedPassword |-> ""]]

NoAccount == [loginId |-> "", hashedPassword |-> ""]

\* accounts/index.ts lines 49-71: the account whose loginId is the one asked
\* for, or none
findAccountByLoginId(loginId) ==
    IF loginId \in DOMAIN AccountsDb THEN AccountsDb[loginId] ELSE NoAccount

\* accounts/index.ts lines 73-77: an account without a hash verifies nothing;
\* otherwise the stored hash is compared with hashed_<password>
verifyPassword(account, passwordPlainText) ==
    IF account.hashedPassword = "" THEN FALSE
    ELSE account.hashedPassword = HashOf(passwordPlainText)

\* what clients type
LoginLines ==
    {"connect", "connect bob", "connect bob secret", "connect bob wrong",
     "connect eve secret", "connect ann secret"}

\* a stored world: the actor #player_prototype, a child of #object, is in
\* #room; the room defines cmd_connect as G code, or does not
WorldLogin(roomCmd) ==
    [i \in InputIds |->
        CASE i = BASE_OBJECT_ID -> Doc(1, << >>, Holding("color", GString("vo")))
          [] i = COMMANDS_ID -> Doc(1, << >>, Holding("color", GString("vg")))
          [] i = "#room" ->
                 Doc(1, << >>,
                     IF roomCmd THEN Attrs2("color", GString("vr"),
                                            "cmd_connect", GString(LogScript))
                     ELSE Holding("color", GString("vr")))
          [] OTHER -> Doc(1, <<BASE_OBJECT_ID>>, Holding("color", GString("vp")))
                          @@ [locationId |-> "#room"]]

InitLogin ==
    \E roomCmd \in BOOLEAN, ev \in {{}, {"#room"}, {PLAYER_PROTOTYPE_ID}} :
        StartedInput(WorldLogin(roomCmd), ev)

NextLogin ==
    \/ \E c \in Conns : Connect(c) \/ End(c)
    \/ \E t \in Tasks :
        \/ \E c \in Conns, data \in LoginLines : Data(t, c, data)
        \/ DbGet(t)
        \/ ResumeGet(t)
        \/ Return(t)

SpecLogin == InitLogin /\ [][NextLogin]_vars

\* the words typed after the verb on the line of t
TypedArgs(t) == Tail(split(task[t].call.message))

\* the line of t, a connect line, has been handled to its end
ConnectDone(t) ==
    /\ LineDone(t)
    /\ toLowerCase(Head(split(task[t].call.message))) = "connect"

\* the line of t names a login id the accounts store does not hold
UnknownLogin(t) ==
    /\ Len(TypedArgs(t)) >= 2
    /\ findAccountByLoginId(TypedArgs(t)[1]) = NoAccount

\* the line of t names an account and a password that is not the account's
WrongPassword(t) ==
    /\ Len(TypedArgs(t)) >= 2
    /\ findAccountByLoginId(TypedArgs(t)[1]) # NoAccount
    /\ ~verifyPassword(findAccountByLoginId(TypedArgs(t)[1]), TypedArgs(t)[2])

ConnectUsage == "Usage: connect <username> <password>"

\* C30: a failed connect line is answered in the same way whether the login
\* id does not exist or the password is wrong; for neither is a game command
\* bound or executed; and a connect line with fewer than two arguments is
\* answered by the usage message alone
C30_FailedConnect ==
    /\ \A t, u \in Tasks :
           (ConnectDone(t) /\ UnknownLogin(t) /\ ConnectDone(u) /\ WrongPassword(u))
               => task[t].sent = task[u].sent
    /\ \A t \in Tasks :
           (ConnectDone(t) /\ (UnknownLogin(t) \/ WrongPassword(t)))
               => task[t].call.handler = "" /\ task[t].logged = << >>
    /\ \A t \in Tasks :
           (ConnectDone(t) /\ Len(TypedArgs(t)) < 2)
               => task[t].sent = <<ConnectUsage>>

====
